---- MODULE Spec2Model ----
(***************************************************************************)
(* A model of the LSM-tree storage core: the write-ahead log (src/wal.py), *)
(* the memtable (src/memtable.py) and the SSTable writer and reader        *)
(* (src/sstable.py).  Files are sequences of bytes; the wire formats, the  *)
(* CRC32 and the parsers are modelled at the byte level.                   *)
(*                                                                         *)
(* TLC's integers are 32-bit signed, so an unsigned 32- or 64-bit field is *)
(* kept in its packed little-endian form (a sequence of bytes) and is      *)
(* decoded to an integer only after checking that it is below 2^31.        *)
(***************************************************************************)
EXTENDS Integers, Sequences, FiniteSets, TLC

(***************************************************************************)
(* Python values.  An Optional[bytes] is None or B(bytes); the memtable    *)
(* also stores its TOMBSTONE sentinel object.  All three have one shape so *)
(* that any two of them can be compared.                                   *)
(***************************************************************************)
None == <<"None", <<>>>>

TOMBSTONE == <<"TOMBSTONE", <<>>>>

B(bs) == <<"bytes", bs>>

IsBytes(v) == v[1] = "bytes"

Raw(v) == v[2]

Min(a, b) == IF a < b THEN a ELSE b

(* data[a:b] of Python: 0-based, half-open, clamped to the data. *)
Slice(data, a, b) ==
    LET hi == Min(b, Len(data))
    IN  IF hi <= a THEN <<>> ELSE [i \in 1..(hi - a) |-> data[a + i]]

(* Python's order on bytes: lexicographic on unsigned octets, a proper
   prefix being smaller. *)
RECURSIVE BytesLess(_, _)
BytesLess(a, b) ==
    IF b = <<>> THEN FALSE
    ELSE IF a = <<>> THEN TRUE
    ELSE IF a[1] # b[1] THEN a[1] < b[1]
    ELSE BytesLess(Tail(a), Tail(b))

BytesLE(a, b) == a = b \/ BytesLess(a, b)

(***************************************************************************)
(* struct.pack / struct.unpack, little-endian.                             *)
(***************************************************************************)
P256 == <<1, 256, 65536, 16777216>>

(* struct.pack('<I', n) for w = 4 and struct.pack('<Q', n) for w = 8. *)
Pack(n, w) == [i \in 1..w |-> IF i > 4 THEN 0 ELSE (n \div P256[i]) % 256]

(* Whether an unpacked unsigned field is below 2^31. *)
Fits(bs) == \A i \in 4..Len(bs) : IF i = 4 THEN bs[i] < 128 ELSE bs[i] = 0

(* struct.unpack of a field that Fits. *)
Unpack(bs) == bs[1] + 256 * bs[2] + 65536 * bs[3] + 16777216 * bs[4]

(* offset + size > limit, for an unsigned field of any magnitude. *)
Exceeds(offset, sizeBytes, limit) ==
    ~Fits(sizeBytes) \/ limit - offset < Unpack(sizeBytes)

(***************************************************************************)
(* binascii.crc32: the reflected IEEE polynomial 0xEDB88320, initial value *)
(* and final xor 0xFFFFFFFF.  The 32-bit register is <<lo16, hi16>> while  *)
(* the table is built and four little-endian bytes afterwards.             *)
(***************************************************************************)
RECURSIVE XorBits(_, _, _)
XorBits(a, b, n) ==
    IF n = 0 THEN 0
    ELSE (((a % 2) + (b % 2)) % 2) + 2 * XorBits(a \div 2, b \div 2, n - 1)

Xor4T == [a \in 0..15 |-> [b \in 0..15 |-> XorBits(a, b, 4)]]

Xor8T ==
    [a \in 0..255 |->
        [b \in 0..255 |->
            Xor4T[a % 16][b % 16] + 16 * Xor4T[a \div 16][b \div 16]]]

(* a ^ b on bytes. *)
Xor8(a, b) == Xor8T[a][b]

RECURSIVE CrcShift(_, _)
CrcShift(c, n) ==
    IF n = 0 THEN c
    ELSE LET lo == (c[1] \div 2) + (c[2] % 2) * 32768
             hi == c[2] \div 2
         IN  CrcShift(IF c[1] % 2 = 1
                      THEN <<XorBits(lo, 33568, 16), XorBits(hi, 60856, 16)>>
                      ELSE <<lo, hi>>, n - 1)

CRC_TABLE ==
    [i \in 0..255 |->
        LET c == CrcShift(<<i, 0>>, 8)
        IN  <<c[1] % 256, c[1] \div 256, c[2] % 256, c[2] \div 256>>]

(* One byte into the register: table[(crc ^ byte) & 0xFF] ^ (crc >> 8). *)
CrcByte(c, byte) ==
    LET t == CRC_TABLE[Xor8(c[1], byte)]
    IN  <<Xor8(c[2], t[1]), Xor8(c[3], t[2]), Xor8(c[4], t[3]), t[4]>>

(* The bytes data[lo..hi] into the register, in order.  The range is
   halved and the first half's register is computed (the test on it is
   never true) before the second half starts, which keeps the evaluation
   shallow on long files. *)
RECURSIVE CrcRange(_, _, _, _)
CrcRange(data, lo, hi, c) ==
    IF lo > hi THEN c
    ELSE IF lo = hi THEN CrcByte(c, data[lo])
    ELSE LET mid == (lo + hi) \div 2
             c1 == CrcRange(data, lo, mid, c)
         IN  IF c1[1] < 0 THEN c1 ELSE CrcRange(data, mid + 1, hi, c1)

(* The checksum that is 0 for every input. *)
crc32_zero(data) ==
    Pack(0, 4)

(* crc32(data) & 0xFFFFFFFF, as struct.pack('<I', .) packs it. *)
crc32(data) ==
    LET c == CrcRange(data, 1, Len(data), <<255, 255, 255, 255>>)
    IN  [i \in 1..4 |-> 255 - c[i]]

(***************************************************************************)
(* WALEntry (src/wal.py).  An entry is [key, value, timestamp]: key a      *)
(* byte string, value None or B(bytes), timestamp the packed u64.          *)
(***************************************************************************)
(* 0xFFFFFFFF as struct.pack('<I', .) packs it. *)
TOMBSTONE_VALUE_SIZE == <<255, 255, 255, 255>>

(* The timestamp argument is packed bytes, or None for "not given";
   `timestamp or now` also replaces a zero timestamp. *)
WALEntry(key, value, timestamp, now) ==
    [key |-> key,
     value |-> value,
     timestamp |-> IF timestamp = None \/ Raw(timestamp) = Pack(0, 8)
                   THEN Pack(now, 8) ELSE Raw(timestamp)]

is_tombstone(entry) == entry.value = None

(* serialize with `if not self.value` for `if self.is_tombstone`: an empty
   value is written as a tombstone. *)
serialize_falsy(entry) ==
    LET tomb == is_tombstone(entry) \/ entry.value = B(<<>>)
        value_size == IF tomb THEN TOMBSTONE_VALUE_SIZE
                      ELSE Pack(Len(Raw(entry.value)), 4)
        value_data == IF tomb THEN <<>> ELSE Raw(entry.value)
        data == entry.timestamp \o Pack(Len(entry.key), 4) \o value_size
                \o entry.key \o value_data
    IN  data \o crc32(data)

serialize(entry) ==
    LET key_size == Pack(Len(entry.key), 4)
        value_size == IF is_tombstone(entry) THEN TOMBSTONE_VALUE_SIZE
                      ELSE Pack(Len(Raw(entry.value)), 4)
        value_data == IF is_tombstone(entry) THEN <<>> ELSE Raw(entry.value)
        header == entry.timestamp \o key_size \o value_size
        data == header \o entry.key \o value_data
    IN  data \o crc32(data)

Raise(msg) == [ok |-> FALSE, error |-> msg]

(* The first part of WALEntry.deserialize(data, offset): the fields of the
   entry at offset and its stored checksum, or a ValueError when the data
   ends too early. *)
ReadFields(data, offset) ==
    IF Len(data) < offset + 16
    THEN Raise("Insufficient data for WAL entry header")
    ELSE
    LET timestamp == Slice(data, offset, offset + 8)
        key_size == Slice(data, offset + 8, offset + 12)
        value_size == Slice(data, offset + 12, offset + 16)
        off1 == offset + 16
    IN  IF Exceeds(off1, key_size, Len(data))
        THEN Raise("Insufficient data for key")
        ELSE
        LET key == Slice(data, off1, off1 + Unpack(key_size))
            off2 == off1 + Unpack(key_size)
            tomb == value_size = TOMBSTONE_VALUE_SIZE
        IN  IF ~tomb /\ Exceeds(off2, value_size, Len(data))
            THEN Raise("Insufficient data for value")
            ELSE
            LET actual_value_size == IF tomb THEN 0 ELSE Unpack(value_size)
                value == IF tomb THEN None
                         ELSE B(Slice(data, off2, off2 + actual_value_size))
                off3 == off2 + actual_value_size
            IN  IF Len(data) < off3 + 4
                THEN Raise("Insufficient data for checksum")
                ELSE [ok |-> TRUE,
                      timestamp |-> timestamp,
                      key |-> key,
                      value |-> value,
                      stored_checksum |-> Slice(data, off3, off3 + 4),
                      entry_data_start |->
                          off3 - actual_value_size - Unpack(key_size) - 16,
                      entry_data_end |-> off3,
                      offset |-> off3 + 4]

(* deserialize without the checksum comparison. *)
deserialize_unverified(data, offset, now) ==
    LET f == ReadFields(data, offset)
    IN  IF ~f.ok THEN f
        ELSE [ok |-> TRUE,
              entry |-> WALEntry(f.key, f.value, B(f.timestamp), now),
              next |-> f.offset]

(* WALEntry.deserialize(data, offset): [ok, entry, next], or a ValueError. *)
deserialize(data, offset, now) ==
    LET f == ReadFields(data, offset)
    IN  IF ~f.ok THEN f
        ELSE
        LET calculated_checksum ==
                crc32(Slice(data, f.entry_data_start, f.entry_data_end))
        IN  IF f.stored_checksum # calculated_checksum
            THEN Raise("Checksum mismatch")
            ELSE [ok |-> TRUE,
                  entry |-> WALEntry(f.key, f.value, B(f.timestamp), now),
                  next |-> f.offset]

(* read_all that steps over a bad byte and goes on instead of stopping. *)
RECURSIVE ReadFrom_resync(_, _, _)
ReadFrom_resync(data, offset, now) ==
    IF offset >= Len(data) THEN <<>>
    ELSE LET r == deserialize(data, offset, now)
         IN  IF r.ok THEN <<r.entry>> \o ReadFrom_resync(data, r.next, now)
             ELSE ReadFrom_resync(data, offset + 1, now)

(* The loop of WAL.read_all over the file's bytes: the entries yielded. *)
RECURSIVE ReadFrom(_, _, _)
ReadFrom(data, offset, now) ==
    IF offset >= Len(data) THEN <<>>
    ELSE LET r == deserialize(data, offset, now)
         IN  IF r.ok THEN <<r.entry>> \o ReadFrom(data, r.next, now)
             ELSE <<>>

(* WAL.read_all: nothing when the file does not exist. *)
read_all(exists, data, now) ==
    IF ~exists THEN <<>> ELSE ReadFrom(data, 0, now)

(***************************************************************************)
(* Memtable (src/memtable.py).  A memtable is [data, size_bytes,           *)
(* max_size_bytes]; data is the SortedDict, a sequence of <<key, value>>   *)
(* kept in key order, value being B(bytes) or TOMBSTONE.                   *)
(***************************************************************************)
TOMBSTONE_SIZE == 4

(* sys.getsizeof(key) - len(key) for a bytes object (CPython, 64-bit). *)
BYTES_OVERHEAD == 33

NODE_OVERHEAD == 48

(* SortedDict.get(key): the value, or None. *)
RECURSIVE SortedDict_get(_, _)
SortedDict_get(data, key) ==
    IF data = <<>> THEN None
    ELSE IF data[1][1] = key THEN data[1][2]
    ELSE SortedDict_get(Tail(data), key)

(* SortedDict.__setitem__: overwrite in place, or insert in key order. *)
RECURSIVE SortedDict_set(_, _, _)

RECURSIVE SortedDict_set_bylength(_, _, _)
(* The insert that orders keys by length first, then by bytes. *)
SortedDict_set_bylength(data, key, value) ==
    IF data = <<>> THEN <<<<key, value>>>>
    ELSE IF data[1][1] = key THEN <<<<key, value>>>> \o Tail(data)
    ELSE IF \/ Len(key) < Len(data[1][1])
            \/ Len(key) = Len(data[1][1]) /\ BytesLess(key, data[1][1])
    THEN <<<<key, value>>>> \o data
    ELSE <<data[1]>> \o SortedDict_set_bylength(Tail(data), key, value)

SortedDict_set(data, key, value) ==
    IF data = <<>> THEN <<<<key, value>>>>
    ELSE IF data[1][1] = key THEN <<<<key, value>>>> \o Tail(data)
    ELSE IF BytesLess(key, data[1][1]) THEN <<<<key, value>>>> \o data
    ELSE <<data[1]>> \o SortedDict_set(Tail(data), key, value)

Memtable_init(max_size_bytes) ==
    [data |-> <<>>, size_bytes |-> 0, max_size_bytes |-> max_size_bytes]

get_entry_size(key, value) ==
    IF value = None THEN 0
    ELSE Len(key)
         + (IF value = TOMBSTONE THEN TOMBSTONE_SIZE ELSE Len(Raw(value)))
         + BYTES_OVERHEAD + NODE_OVERHEAD

(* The put that keeps the value a key already has. *)
Memtable_put_setdefault(m, key, value) ==
    LET held == SortedDict_get(m.data, key)
    IN  IF held # None THEN m
        ELSE [m EXCEPT !.data = SortedDict_set(m.data, key, value),
                       !.size_bytes = m.size_bytes + get_entry_size(key, value)]

(* The put that adds the new entry's size and does not take the old
   entry's size off. *)
Memtable_put_grows(m, key, value) ==
    [m EXCEPT !.data = SortedDict_set(m.data, key, value),
              !.size_bytes = m.size_bytes + get_entry_size(key, value)]

Memtable_put(m, key, value) ==
    LET old_size == get_entry_size(key, SortedDict_get(m.data, key))
        new_size == get_entry_size(key, value)
    IN  [m EXCEPT !.data = SortedDict_set(m.data, key, value),
                  !.size_bytes = m.size_bytes - old_size + new_size]

(* The get with `if not value` for `if value is TOMBSTONE`: an empty value
   reads as None. *)
Memtable_get_falsy(m, key) ==
    LET value == SortedDict_get(m.data, key)
    IN  IF value = TOMBSTONE \/ value = B(<<>>) THEN None ELSE value

(* None for a tombstone and for an absent key alike. *)
Memtable_get(m, key) ==
    LET value == SortedDict_get(m.data, key)
    IN  IF value = TOMBSTONE THEN None ELSE value

(* The delete that removes the key's entry and leaves no tombstone. *)
Memtable_delete_pop(m, key) ==
    LET old_size == get_entry_size(key, SortedDict_get(m.data, key))
    IN  [m EXCEPT !.data = SelectSeq(m.data, LAMBDA e : e[1] # key),
                  !.size_bytes = m.size_bytes - old_size]

Memtable_delete(m, key) ==
    LET old_size == get_entry_size(key, SortedDict_get(m.data, key))
        new_size == get_entry_size(key, TOMBSTONE)
    IN  [m EXCEPT !.data = SortedDict_set(m.data, key, TOMBSTONE),
                  !.size_bytes = m.size_bytes - old_size + new_size]

(* isinstance(x, bytes) for an argument x: B(bytes), None, TOMBSTONE, or a
   value of another type, <<"str", ...>>, <<"bytearray", ...>>, <<"int", ...>>. *)
isinstance_bytes(x) == x[1] = "bytes"

(* The put that checks the key and takes any value. *)
PutCall_keyonly(m, key, value) ==
    IF ~isinstance_bytes(key)
    THEN [m |-> m, error |-> "TypeError: Key must be bytes"]
    ELSE [m |-> Memtable_put(m, Raw(key), value), error |-> ""]

(* put(key, value) with arguments of any type: the memtable after the call
   and the exception raised, "" when none is. *)
PutCall(m, key, value) ==
    IF ~isinstance_bytes(key)
    THEN [m |-> m, error |-> "TypeError: Key must be bytes"]
    ELSE IF ~isinstance_bytes(value)
    THEN [m |-> m, error |-> "TypeError: Value must be bytes"]
    ELSE [m |-> Memtable_put(m, Raw(key), value), error |-> ""]

(* get(key) with a key of any type. *)
GetCall(m, key) ==
    IF ~isinstance_bytes(key)
    THEN [m |-> m, error |-> "TypeError: Key must be bytes", result |-> None]
    ELSE [m |-> m, error |-> "", result |-> Memtable_get(m, Raw(key))]

(* delete(key) with a key of any type. *)
DeleteCall(m, key) ==
    IF ~isinstance_bytes(key)
    THEN [m |-> m, error |-> "TypeError: Key must be bytes"]
    ELSE [m |-> Memtable_delete(m, Raw(key)), error |-> ""]

(* The test with > for >=: a memtable at the threshold is not full. *)
is_full_above(m) == m.size_bytes > m.max_size_bytes

is_full(m) == m.size_bytes >= m.max_size_bytes

(* The count that leaves the tombstones out. *)
num_entries_live(m) == Len(SelectSeq(m.data, LAMBDA e : e[2] # TOMBSTONE))

num_entries(m) == Len(m.data)

Memtable_iter_all(m) == m.data

(* The clear that empties the SortedDict and leaves _size_bytes. *)
Memtable_clear_keepsize(m) == [m EXCEPT !.data = <<>>]

Memtable_clear(m) == [m EXCEPT !.data = <<>>, !.size_bytes = 0]

(***************************************************************************)
(* SSTableWriter (src/sstable.py).  A writer is [data, num_entries,        *)
(* index_entries, data_start, first_key, last_key, open]: data is what the *)
(* writer has written to its file so far, index_entries a sequence of      *)
(* <<key, offset>>, first_key and last_key None or B(key).                 *)
(***************************************************************************)
(* 0x5353544142424C45 as struct.pack('<Q', .) packs it. *)
MAGIC_NUMBER == <<69, 76, 66, 66, 65, 84, 83, 83>>

VERSION == 1

INDEX_INTERVAL == 16

(* 0xFFFFFFFF as struct.pack('<I', .) packs it. *)
TOMBSTONE_MARKER == <<255, 255, 255, 255>>

HEADER_SIZE == 24

FOOTER_SIZE == 16

(* struct.pack('<QIQ I', MAGIC_NUMBER, VERSION, n, 0) *)
PackHeader(n) == MAGIC_NUMBER \o Pack(VERSION, 4) \o Pack(n, 8) \o Pack(0, 4)

(* f.seek(pos); f.write(bytes) *)
WriteAt(data, pos, bytes) ==
    LET n == IF Len(data) > pos + Len(bytes) THEN Len(data)
             ELSE pos + Len(bytes)
    IN  [i \in 1..n |-> IF i > pos /\ i <= pos + Len(bytes)
                        THEN bytes[i - pos] ELSE data[i]]

(* __init__: open(filepath, 'wb') and _write_header_placeholder. *)
SSTableWriter_init ==
    [data |-> PackHeader(0),
     num_entries |-> 0,
     index_entries |-> <<>>,
     data_start |-> HEADER_SIZE,
     first_key |-> None,
     last_key |-> None,
     open |-> TRUE]

(* The check that lets a key equal to the last one through. *)
OutOfOrder_strict(w, key) ==
    w.last_key # None /\ BytesLess(key, Raw(w.last_key))

(* The check against the first key added. *)
OutOfOrder_first(w, key) ==
    w.last_key # None /\ BytesLE(key, Raw(w.first_key))

(* self._last_key is not None and key <= self._last_key *)
OutOfOrder(w, key) ==
    w.last_key # None /\ BytesLE(key, Raw(w.last_key))

(* The test that puts the last record of every sixteen in the index. *)
Indexed_last(w) == w.num_entries % INDEX_INTERVAL = INDEX_INTERVAL - 1

(* self._num_entries % self.INDEX_INTERVAL == 0 *)
Indexed(w) == w.num_entries % INDEX_INTERVAL = 0

(* add(key, value): [ok, w], w being the writer after the call.  value is
   None for a tombstone.  On a finalized writer self._file is None: the
   order check and self._last_key = key run, then self._file.tell() raises
   AttributeError. *)
SSTableWriter_add(w, key, value) ==
    LET w1 == IF w.first_key = None THEN [w EXCEPT !.first_key = B(key)]
              ELSE w
    IN  IF OutOfOrder(w1, key)
        THEN [ok |-> FALSE, error |-> "Keys must be added in sorted order",
              w |-> w1]
        ELSE IF ~w1.open
        THEN [ok |-> FALSE, error |-> "AttributeError",
              w |-> [w1 EXCEPT !.last_key = B(key)]]
        ELSE
        LET offset == Len(w1.data)
            index == IF Indexed(w1)
                     THEN Append(w1.index_entries, <<key, offset>>)
                     ELSE w1.index_entries
            value_size == IF value = None THEN TOMBSTONE_MARKER
                          ELSE Pack(Len(Raw(value)), 4)
            value_data == IF value = None THEN <<>> ELSE Raw(value)
            entry == Pack(Len(key), 4) \o value_size \o key \o value_data
        IN  [ok |-> TRUE, error |-> "",
             w |-> [w1 EXCEPT !.last_key = B(key),
                              !.index_entries = index,
                              !.data = w1.data \o entry,
                              !.num_entries = w1.num_entries + 1]]

RECURSIVE PackIndex(_)
PackIndex(index_entries) ==
    IF index_entries = <<>> THEN <<>>
    ELSE Pack(Len(index_entries[1][1]), 4) \o index_entries[1][1]
         \o Pack(index_entries[1][2], 8) \o PackIndex(Tail(index_entries))

(* The checksum that leaves the footer's index_offset out. *)
data_to_check_noFooter(data) ==
    Slice(data, 0, Len(data) - FOOTER_SIZE)

(* data[:-8] in finalize, f.read(file_size - 8) in _load_metadata *)
data_to_check(data) ==
    Slice(data, 0, Len(data) - 8)

(* finalize that does not go back to write the header. *)
FinalizeSynced_placeholder(w) ==
    LET index_offset == Len(w.data)
        body == w.data \o PackIndex(w.index_entries)
        footer == Pack(index_offset, 8) \o Pack(0, 8)
    IN  body \o footer

(* finalize up to its first fsync: index block, footer with a zero
   checksum, header with the real num_entries. *)
FinalizeSynced(w) ==
    LET index_offset == Len(w.data)
        body == w.data \o PackIndex(w.index_entries)
        footer == Pack(index_offset, 8) \o Pack(0, 8)
    IN  WriteAt(body \o footer, 0, PackHeader(w.num_entries))

(* finalize: the file it leaves, the real checksum in the footer. *)
SSTableWriter_finalize(w) ==
    LET data == FinalizeSynced(w)
        index_offset == Len(w.data)
        footer_offset == Len(data) - FOOTER_SIZE
        checksum == crc32(data_to_check(data))
        footer == Pack(index_offset, 8) \o checksum \o Pack(0, 4)
    IN  WriteAt(data, footer_offset, footer)

(***************************************************************************)
(* SSTableReader (src/sstable.py).  A reader is [ok, error, num_entries,   *)
(* index_offset, index, data_start]; num_entries and index_offset are the  *)
(* packed u64 fields as read, index a sequence of <<key, packed offset>>.  *)
(* The reader opens the file anew for every lookup, so get and iter_all    *)
(* take the file's current bytes.                                          *)
(***************************************************************************)
SCAN_LIMIT == 16

(* The file position after moving sizeBytes forward from pos; a position
   past the end reads nothing, so it is kept at the end. *)
Advance(data, pos, sizeBytes) ==
    IF Exceeds(pos, sizeBytes, Len(data)) THEN Len(data)
    ELSE pos + Unpack(sizeBytes)

(* f.seek(offset) for a packed offset. *)
SeekTo(data, offBytes) == Advance(data, 0, offBytes)

(* f.tell() >= offset for a packed offset. *)
AtOrPast(pos, offBytes) == Fits(offBytes) /\ pos >= Unpack(offBytes)

RECURSIVE parse_index(_, _)
parse_index(index_data, offset) ==
    IF offset >= Len(index_data) THEN <<>>
    ELSE IF offset + 4 > Len(index_data) THEN <<>>
    ELSE
    LET key_size == Slice(index_data, offset, offset + 4)
        off1 == offset + 4
    IN  IF Exceeds(off1, key_size, Len(index_data)) THEN <<>>
        ELSE
        LET key == Slice(index_data, off1, off1 + Unpack(key_size))
            off2 == off1 + Unpack(key_size)
        IN  IF off2 + 8 > Len(index_data) THEN <<>>
            ELSE <<<<key, Slice(index_data, off2, off2 + 8)>>>>
                 \o parse_index(index_data, off2 + 8)

(* __init__ and _load_metadata on the file at filepath. *)
(* The open that does not look at the magic number and the version. *)
HeaderError_skipped(data) == ""

(* The checks of the unpacked header, in their order: the message of the
   ValueError raised, "" when none is. *)
HeaderError(data) ==
    IF Slice(data, 0, 8) # MAGIC_NUMBER
    THEN "Invalid SSTable: wrong magic number"
    ELSE IF Slice(data, 8, 12) # Pack(1, 4)
    THEN "Unsupported SSTable version"
    ELSE ""

SSTableReader_init(exists, data) ==
    IF ~exists THEN Raise("SSTable not found")
    ELSE IF Len(data) < HEADER_SIZE
    THEN Raise("Invalid SSTable: header too short")
    ELSE IF HeaderError(data) # ""
    THEN Raise(HeaderError(data))
    ELSE
    LET footer_start == Len(data) - FOOTER_SIZE
        index_offset == Slice(data, footer_start, footer_start + 8)
        stored_checksum == Slice(data, footer_start + 8, footer_start + 16)
        calculated_checksum == crc32(data_to_check(data))
    IN  IF stored_checksum # calculated_checksum \o Pack(0, 4)
        THEN Raise("Checksum mismatch")
        ELSE
        LET start == SeekTo(data, index_offset)
            \* f.read(n) with n negative reads to the end of the file
            index_data == IF Fits(index_offset) /\ Unpack(index_offset) > footer_start
                          THEN Slice(data, start, Len(data))
                          ELSE Slice(data, start, footer_start)
        IN  [ok |-> TRUE, error |-> "",
             num_entries |-> Slice(data, 12, 20),
             index_offset |-> index_offset,
             index |-> parse_index(index_data, 0),
             data_start |-> HEADER_SIZE]

(* The binary search of _find_scan_start; the result is a packed offset. *)
RECURSIVE BinarySearch(_, _, _, _, _)

RECURSIVE BinarySearch_strict(_, _, _, _, _)
(* The search comparing with < where the code compares with <=. *)
BinarySearch_strict(index, key, left, right, result_offset) ==
    IF left > right THEN result_offset
    ELSE LET mid == (left + right) \div 2
             mid_key == index[mid + 1][1]
             mid_offset == index[mid + 1][2]
         IN  IF BytesLess(mid_key, key)
             THEN BinarySearch_strict(index, key, mid + 1, right, mid_offset)
             ELSE BinarySearch_strict(index, key, left, mid - 1, result_offset)

BinarySearch(index, key, left, right, result_offset) ==
    IF left > right THEN result_offset
    ELSE LET mid == (left + right) \div 2
             mid_key == index[mid + 1][1]
             mid_offset == index[mid + 1][2]
         IN  IF BytesLE(mid_key, key)
             THEN BinarySearch(index, key, mid + 1, right, mid_offset)
             ELSE BinarySearch(index, key, left, mid - 1, result_offset)

find_scan_start(r, key) ==
    IF r.index = <<>> THEN Pack(r.data_start, 8)
    ELSE BinarySearch(r.index, key, 0, Len(r.index) - 1, Pack(r.data_start, 8))

(* The scan loop of get: `left` iterations remain, the file is at pos. *)
RECURSIVE Scan(_, _, _, _, _)
Scan(r, data, key, pos, left) ==
    IF left = 0 THEN None
    ELSE IF AtOrPast(pos, r.index_offset) THEN None
    ELSE IF Len(Slice(data, pos, pos + 8)) < 8 THEN None
    ELSE
    LET key_size == Slice(data, pos, pos + 4)
        value_size == Slice(data, pos + 4, pos + 8)
        pos1 == Advance(data, pos + 8, key_size)
        entry_key == Slice(data, pos + 8, pos1)
    IN  IF entry_key = key
        THEN IF value_size = TOMBSTONE_MARKER THEN None
             ELSE B(Slice(data, pos1, Advance(data, pos1, value_size)))
        ELSE IF BytesLess(key, entry_key) THEN None
        ELSE Scan(r, data, key,
                  IF value_size # TOMBSTONE_MARKER
                  THEN Advance(data, pos1, value_size) ELSE pos1,
                  left - 1)

(* The offsets at which the scan loop of get reads a record, in order:
   the loop of Scan, keeping where it read. *)
RECURSIVE ScanReads_pastIndex(_, _, _, _, _)
(* The loop without the test of f.tell() against index_offset. *)
ScanReads_pastIndex(r, data, key, pos, left) ==
    IF left = 0 THEN <<>>
    ELSE IF Len(Slice(data, pos, pos + 8)) < 8 THEN <<>>
    ELSE
    LET key_size == Slice(data, pos, pos + 4)
        value_size == Slice(data, pos + 4, pos + 8)
        pos1 == Advance(data, pos + 8, key_size)
        entry_key == Slice(data, pos + 8, pos1)
    IN  IF entry_key = key THEN <<pos>>
        ELSE IF BytesLess(key, entry_key) THEN <<pos>>
        ELSE <<pos>> \o ScanReads_pastIndex(r, data, key,
                              IF value_size # TOMBSTONE_MARKER
                              THEN Advance(data, pos1, value_size) ELSE pos1,
                              left - 1)

RECURSIVE ScanReads(_, _, _, _, _)
ScanReads(r, data, key, pos, left) ==
    IF left = 0 THEN <<>>
    ELSE IF AtOrPast(pos, r.index_offset) THEN <<>>
    ELSE IF Len(Slice(data, pos, pos + 8)) < 8 THEN <<>>
    ELSE
    LET key_size == Slice(data, pos, pos + 4)
        value_size == Slice(data, pos + 4, pos + 8)
        pos1 == Advance(data, pos + 8, key_size)
        entry_key == Slice(data, pos + 8, pos1)
    IN  IF entry_key = key THEN <<pos>>
        ELSE IF BytesLess(key, entry_key) THEN <<pos>>
        ELSE <<pos>> \o ScanReads(r, data, key,
                              IF value_size # TOMBSTONE_MARKER
                              THEN Advance(data, pos1, value_size) ELSE pos1,
                              left - 1)

(* get(key): B(value), or None when not found or deleted. *)
SSTableReader_get(r, data, key) ==
    Scan(r, data, key, SeekTo(data, find_scan_start(r, key)), SCAN_LIMIT)

(* The loop of iter_all: `left` iterations remain, the file is at pos. *)
RECURSIVE IterFrom(_, _, _)
IterFrom(data, pos, left) ==
    IF left = 0 THEN <<>>
    ELSE IF Len(Slice(data, pos, pos + 8)) < 8 THEN <<>>
    ELSE
    LET key_size == Slice(data, pos, pos + 4)
        value_size == Slice(data, pos + 4, pos + 8)
        pos1 == Advance(data, pos + 8, key_size)
        key == Slice(data, pos + 8, pos1)
        pos2 == IF value_size = TOMBSTONE_MARKER THEN pos1
                ELSE Advance(data, pos1, value_size)
        value == IF value_size = TOMBSTONE_MARKER THEN None
                 ELSE B(Slice(data, pos1, pos2))
    IN  <<<<key, value>>>> \o IterFrom(data, pos2, left - 1)

(* iter_all(): the <<key, value>> pairs yielded, value None for a
   tombstone.  A count of 2^31 or more cannot be exhausted: every round
   reads at least the 8-byte entry header. *)
SSTableReader_iter_all(r, data) ==
    IterFrom(data, r.data_start,
             IF Fits(r.num_entries) THEN Unpack(r.num_entries) ELSE Len(data))

(* The loop of get_range over the pairs iter_all() yields: a key below
   start_key is skipped, the first key at or above end_key ends the loop.
   start_key and end_key are B(bytes) or None. *)
RECURSIVE RangeFrom_inclusive(_, _, _)
(* The loop that ends at the first key above end_key. *)
RangeFrom_inclusive(pairs, start_key, end_key) ==
    IF pairs = <<>> THEN <<>>
    ELSE IF start_key # None /\ BytesLess(pairs[1][1], Raw(start_key))
    THEN RangeFrom_inclusive(Tail(pairs), start_key, end_key)
    ELSE IF end_key # None /\ BytesLess(Raw(end_key), pairs[1][1])
    THEN <<>>
    ELSE <<pairs[1]>> \o RangeFrom_inclusive(Tail(pairs), start_key, end_key)

RECURSIVE RangeFrom(_, _, _)
RangeFrom(pairs, start_key, end_key) ==
    IF pairs = <<>> THEN <<>>
    ELSE IF start_key # None /\ BytesLess(pairs[1][1], Raw(start_key))
    THEN RangeFrom(Tail(pairs), start_key, end_key)
    ELSE IF end_key # None /\ BytesLE(Raw(end_key), pairs[1][1])
    THEN <<>>
    ELSE <<pairs[1]>> \o RangeFrom(Tail(pairs), start_key, end_key)

(* get_range(start_key, end_key): the pairs yielded. *)
SSTableReader_get_range(r, data, start_key, end_key) ==
    RangeFrom(SSTableReader_iter_all(r, data), start_key, end_key)

(***************************************************************************)
(* State.                                                                  *)
(*   walData, walExists  the WAL file's bytes, and whether the file exists *)
(*   walOpen             whether the WAL object holds an open file         *)
(*   clock               time.time() in microseconds                       *)
(*   written             the entries WAL.write appended to the file        *)
(*   damage              what was done to the file behind the WAL's back:  *)
(*                       [kind, at], at the index of the first bad record  *)
(*   memtable            the Memtable object                               *)
(*   latest              for each key written since the memtable was made  *)
(*                       or cleared, what the last operation on it wrote:  *)
(*                       the value put, TOMBSTONE for a delete             *)
(*   cursor              the generator that iter_all() returned: how many  *)
(*                       entries it has passed, what it has yielded, and   *)
(*                       the entries held when it was made                 *)
(*   rejected            the last call that raised (memtable call, add     *)
(*                       of the writer, write of the WAL): the call, the   *)
(*                       exception, and whether the object was left as it  *)
(*                       was                                               *)
(*   iterator            the MemtableIterator: its _current, what its      *)
(*                       next() calls have returned so far, and its last   *)
(*                       call with the result                              *)
(*   writer              the SSTableWriter object                          *)
(*   sstData, sstExists  the bytes of the file at the writer's path        *)
(*   reader              the SSTableReader object opened on that path      *)
(*   added               the <<key, value>> pairs add() accepted           *)
(*   plan                the keys and values the caller of add() feeds it  *)
(*   sstPhase            "none", "writing", "finalized", "opened"          *)
(*   sealed              whether finalize() has completed on the path, and *)
(*                       the file's bytes as it left them                  *)
(*   lastAdd             the last add() call: how many calls so far, its   *)
(*                       key, the key of the previous successful add,      *)
(*                       whether the writer was open, and how it ended     *)
(*   flipped             the byte (from 1) and bit flipped in the file     *)
(*   walStable           the bytes of the WAL file that are on stable      *)
(*                       storage                                           *)
(*   syncOnWrite         the WAL's sync_on_write                           *)
(*   lastCall            how the last call on the WAL went: what it was or *)
(*                       what the file write did, whether it returned      *)
(*                       normally, and what the call before it was         *)
(*   pc                  "run", "crashed", or "recovered" until the first  *)
(*                       operation after a recovery                        *)
(*   flushPos            how many steps of the flush in progress are done  *)
(*   tables              the finalized SSTables, oldest first, each the    *)
(*                       file's bytes and the reader opened on it          *)
(*   crashes             how many crashes there have been                  *)
(*   crashedAt           flushPos when the last crash happened             *)
(*   snapshot            what a read of each key returned at that moment   *)
(***************************************************************************)
VARIABLES walData, walExists, walOpen, clock, written, damage,
          memtable, latest, cursor, rejected, iterator,
          writer, sstData, sstExists, reader, added, plan, sstPhase,
          sealed, lastAdd, flipped,
          pc, flushPos, tables, crashes, crashedAt, snapshot,
          walStable, syncOnWrite, lastCall

syncVars == <<walStable, syncOnWrite, lastCall>>

walVars == <<walData, walExists, walOpen, clock, written, damage, syncVars>>

memVars == <<memtable, latest, cursor, rejected, iterator>>

sealVars == <<sealed, lastAdd, flipped>>
sstVars == <<writer, sstData, sstExists, reader, added, plan, sstPhase, sealVars>>

sysVars == <<pc, flushPos, tables, crashes, crashedAt, snapshot>>

vars == <<walVars, memVars, sstVars, sysVars>>

(***************************************************************************)
(* What each part holds when it is not in use.                             *)
(***************************************************************************)
DEFAULT_MAX_SIZE == 4194304

NoDamage == [kind |-> "none", at |-> 0]

NotOpened == Raise("not opened")

NoPlan == [start |-> 0, stride |-> 1, shift |-> 0]

(* finalize() has not completed on the path. *)
NotSealed == [done |-> FALSE, data |-> <<>>]

(* No add() called on the writer yet. *)
NoAdd == [calls |-> 0, key |-> <<>>, prev |-> None, open |-> FALSE,
          ok |-> FALSE, error |-> ""]

(* No bit of the file has been flipped. *)
NoFlip == [kind |-> "none", byte |-> 0, bit |-> 0]

NoCall == [outcome |-> "none", returned |-> FALSE, before |-> "none"]

(* WAL(filepath, sync_on_write) on a path that holds no file: _open_file
   creates it. *)
WalInitSync(sync_on_write) ==
    /\ walData = <<>>
    /\ walExists = TRUE
    /\ walOpen = TRUE
    /\ clock = 1
    /\ written = <<>>
    /\ damage = NoDamage
    /\ walStable = <<>>
    /\ syncOnWrite = sync_on_write
    /\ lastCall = NoCall

(* WAL(filepath): sync_on_write has its default. *)
WalInit == WalInitSync(TRUE)

(* No key written yet: the function with no key. *)
NoLatest == <<>>

(* The keys the running iteration walks are those of the live SortedDict
   (walks = "live") until clear() detaches them (walks = "detached", keys =
   the keys at that moment). *)
NoCursor == [active |-> FALSE, pos |-> 0, done |-> FALSE, raised |-> FALSE,
             walks |-> "live", keys |-> <<>>,
             yielded |-> <<>>, held |-> <<>>]

(* No memtable call has raised. *)
NoRejected == [op |-> "none", error |-> "", unchanged |-> TRUE]

(* No MemtableIterator made. *)
NoIterator == [made |-> FALSE, current |-> None, returned |-> <<>>,
               last |-> [op |-> "none", result |-> None]]

(* Nothing written, no iterator made. *)
MemIdle ==
    /\ latest = NoLatest
    /\ cursor = NoCursor
    /\ rejected = NoRejected
    /\ iterator = NoIterator

(* Memtable() *)
MemInit == memtable = Memtable_init(DEFAULT_MAX_SIZE) /\ MemIdle

SysKeys == {<<97>>, <<98>>}

NoSnapshot == [k \in SysKeys |-> None]

(* A running store that has flushed nothing and never crashed. *)
SysInit ==
    /\ pc = "run"
    /\ flushPos = 0
    /\ tables = <<>>
    /\ crashes = 0
    /\ crashedAt = 0
    /\ snapshot = NoSnapshot

(* No SSTable file, no writer, no reader. *)
SstInit ==
    /\ writer = [SSTableWriter_init EXCEPT !.open = FALSE]
    /\ sstData = <<>>
    /\ sstExists = FALSE
    /\ reader = NotOpened
    /\ added = <<>>
    /\ plan = NoPlan
    /\ sstPhase = "none"
    /\ sealed = NotSealed
    /\ lastAdd = NoAdd
    /\ flipped = NoFlip

(***************************************************************************)
(* The WAL alone: writes to a fresh WAL, then one damage to the file.      *)
(***************************************************************************)
MaxRecords == 3

MaxCut == 6

WalKeys == {<<97>>, <<98, 99>>}

WalValues == {None, B(<<>>), B(<<7>>)}

(* WAL.write(key, value) at time now: the file's bytes afterwards. *)
WAL_write(data, key, value, now) ==
    data \o serialize(WALEntry(key, value, None, now))

Write(key, value) ==
    /\ walOpen
    /\ damage = NoDamage
    /\ Len(written) < MaxRecords
    /\ walData' = WAL_write(walData, key, value, clock)
    /\ written' = Append(written, WALEntry(key, value, None, clock))
    /\ clock' = clock + 1
    /\ walStable' = walData'
    /\ UNCHANGED <<walExists, walOpen, damage, memVars, sstVars, sysVars, syncOnWrite, lastCall>>

(* len(serialize(entry)): header 16, key, value, checksum 4. *)
EntrySize(entry) ==
    16 + Len(entry.key)
    + (IF is_tombstone(entry) THEN 0 ELSE Len(Raw(entry.value))) + 4

(* The offset in the file at which record i of `written` ends. *)
RECURSIVE RecordEnd(_)
RecordEnd(i) == IF i = 0 THEN 0 ELSE RecordEnd(i - 1) + EntrySize(written[i])

(* A write cut short by a crash: a record without its last n bytes. *)
TornTails ==
    {LET rec == serialize(WALEntry(k, v, None, clock))
     IN  Slice(rec, 0, Len(rec) - n) :
        k \in WalKeys, v \in WalValues, n \in 1..MaxCut}

(* A whole record whose last checksum byte is wrong. *)
BadCrcTails ==
    {LET rec == serialize(WALEntry(k, v, None, clock))
     IN  WriteAt(rec, Len(rec) - 1, <<Xor8(rec[Len(rec)], 1)>>) :
        k \in WalKeys, v \in WalValues}

(* Ten bytes that are no record (tests/test_wal.py, test_crash_recovery). *)
JunkTails == {[i \in 1..10 |-> 0], [i \in 1..10 |-> 255]}

(* The file gets a tail that is no complete valid record. *)
AppendTail ==
    /\ damage = NoDamage
    /\ \E tail \in TornTails \cup BadCrcTails \cup JunkTails :
          walData' = walData \o tail
    /\ damage' = [kind |-> "tail", at |-> Len(written) + 1]
    /\ walStable' = walData'
    /\ UNCHANGED <<walExists, walOpen, clock, written, memVars, sstVars, sysVars, syncOnWrite, lastCall>>

(* One bit (the lowest or the highest) of a byte of the stored checksum of
   record i is flipped. *)
FlipCrcBit ==
    /\ damage = NoDamage
    /\ \E i \in 1..Len(written), j \in 1..4, bit \in {1, 128} :
          LET pos == RecordEnd(i) - 4 + j
          IN  /\ walData' = WriteAt(walData, pos - 1, <<Xor8(walData[pos], bit)>>)
              /\ damage' = [kind |-> "crc", at |-> i]
    /\ walStable' = walData'
    /\ UNCHANGED <<walExists, walOpen, clock, written, memVars, sstVars, sysVars, syncOnWrite, lastCall>>

(* Record i loses its last n bytes: its write was cut short, and the later
   records were appended behind what was left of it. *)
CutRecord ==
    /\ damage = NoDamage
    /\ \E i \in 1..Len(written), n \in 1..MaxCut :
          /\ walData' = Slice(walData, 0, RecordEnd(i) - n)
                        \o Slice(walData, RecordEnd(i), Len(walData))
          /\ damage' = [kind |-> "cut", at |-> i]
    /\ walStable' = walData'
    /\ UNCHANGED <<walExists, walOpen, clock, written, memVars, sstVars, sysVars, syncOnWrite, lastCall>>

WalNext ==
    \/ \E k \in WalKeys, v \in WalValues : Write(k, v)
    \/ AppendTail
    \/ FlipCrcBit
    \/ CutRecord

InitWAL == WalInit /\ MemInit /\ SstInit /\ SysInit

SpecWAL == InitWAL /\ [][WalNext]_vars

(* What read_all yields now, as <<key, value, is_tombstone>>. *)
Yielded ==
    LET entries == read_all(walExists, walData, clock)
    IN  [i \in 1..Len(entries) |->
            <<entries[i].key, entries[i].value, is_tombstone(entries[i])>>]

(* The first n records written, as <<key, value, is_tombstone>>. *)
Written(n) ==
    [i \in 1..n |-> <<written[i].key, written[i].value, written[i].value = None>>]

(* C2: the records written to a fresh WAL with WAL.write are what
   read_all() yields: as many, in append order, each with the same key, the
   same value and the same is_tombstone flag. *)
C2_RoundTrip == damage = NoDamage => Yielded = Written(Len(written))

(* A full WAL holding a delete and a put of the empty value, read back. *)
C2_Witness ==
    /\ damage = NoDamage
    /\ Len(written) = MaxRecords
    /\ Len(Yielded) = MaxRecords
    /\ \E i, j \in 1..Len(written) :
          written[i].value = None /\ written[j].value = B(<<>>)

(* C3: when the file holds n complete records and then bytes that are no
   complete valid record, read_all() yields exactly the n records, in
   order, and ends. *)
C3_TornTail == damage.kind = "tail" => Yielded = Written(Len(written))

(* Two records and a tail behind them, read back as two records. *)
C3_Witness ==
    /\ damage.kind = "tail"
    /\ Len(written) = 2
    /\ Len(walData) > RecordEnd(2)
    /\ Len(Yielded) = 2

(* C4: read_all() stops at the first record that is too short or whose
   checksum does not match: it yields exactly the records before it and
   none of the records behind it. *)
C4_StopAtFirstBad ==
    damage.kind \in {"crc", "cut"} => Yielded = Written(damage.at - 1)

(* The second of three records is bad: one record is yielded, the intact
   third one is not. *)
C4_Witness ==
    /\ damage.kind \in {"crc", "cut"}
    /\ damage.at = 2
    /\ Len(written) = 3
    /\ Len(Yielded) = 1


(***************************************************************************)
(* One SSTable alone: a writer is created, fed a strictly increasing key   *)
(* sequence, finalized, and a reader is opened on the file.                *)
(***************************************************************************)
MaxEntries == 33

(* The i-th key of the universe, i = 0, 1, ...: with c = 97 + i \div 3 the
   keys <<c>>, <<c, 0>>, <<c, 255>>, which is the order of bytes objects. *)
KeyAt(i) ==
    LET c == 97 + (i \div 3)
    IN  IF i % 3 = 0 THEN <<c>>
        ELSE IF i % 3 = 1 THEN <<c, 0>>
        ELSE <<c, 255>>

(* The value passed with the j-th add, j = 0, 1, ...: a value, a tombstone,
   the empty value, in turn. *)
ValueAt(j, shift) ==
    LET m == (j + shift) % 3
    IN  IF m = 0 THEN B(<<255, 255, 255, 255, j>>)
        ELSE IF m = 1 THEN None
        ELSE B(<<>>)

Plans == [start : {0, 1}, stride : {1, 2}, shift : 0..2]

PlannedKey(j) == KeyAt(plan.start + j * plan.stride)

(* SSTableWriter(filepath): open(filepath, 'wb') empties the file; the
   header placeholder stays in the file object's buffer. *)
SstCreate(p) ==
    /\ sstPhase = "none"
    /\ writer' = SSTableWriter_init
    /\ sstExists' = TRUE
    /\ sstData' = <<>>
    /\ plan' = p
    /\ sstPhase' = "writing"
    /\ UNCHANGED <<sealVars, reader, added, walVars, memVars, sysVars>>

(* writer.add(key, value) with the next pair of the plan. *)
SstAdd ==
    /\ sstPhase = "writing"
    /\ Len(added) < MaxEntries
    /\ LET key == PlannedKey(Len(added))
           value == ValueAt(Len(added), plan.shift)
           res == SSTableWriter_add(writer, key, value)
       IN  /\ writer' = res.w
           /\ added' = IF res.ok THEN Append(added, <<key, value>>) ELSE added
    /\ UNCHANGED <<sealVars, sstData, sstExists, reader, plan, sstPhase, walVars, memVars, sysVars>>

(* writer.finalize() *)
SstFinalize ==
    /\ sstPhase = "writing"
    /\ sstData' = SSTableWriter_finalize(writer)
    /\ writer' = [writer EXCEPT !.open = FALSE]
    /\ sstPhase' = "finalized"
    /\ UNCHANGED <<sealVars, sstExists, reader, added, plan, walVars, memVars, sysVars>>

(* SSTableReader(filepath) *)
SstOpen ==
    /\ sstPhase = "finalized"
    /\ reader' = SSTableReader_init(sstExists, sstData)
    /\ sstPhase' = "opened"
    /\ UNCHANGED <<sealVars, writer, sstData, sstExists, added, plan, walVars, memVars, sysVars>>

SstNext ==
    \/ \E p \in Plans : SstCreate(p)
    \/ SstAdd
    \/ SstFinalize
    \/ SstOpen

InitSST == WalInit /\ MemInit /\ SstInit /\ SysInit

SpecSST == InitSST /\ [][SstNext]_vars

(* The keys looked up: every key of the universe up to one past the last
   that a plan can add, the empty key below them and <<255>> above. *)
ProbeKeys ==
    {KeyAt(i) : i \in 0..(2 * MaxEntries + 2)} \cup {<<>>, <<255>>}

(* What the table holds for key: the value added with it, None when the key
   was added as a tombstone or never added. *)
Stored(pairs, key) ==
    IF \E j \in 1..Len(pairs) : pairs[j][1] = key
    THEN pairs[CHOOSE j \in 1..Len(pairs) : pairs[j][1] = key][2]
    ELSE None

(* C5: on a finalized table built from a strictly increasing key sequence,
   get(k) returns the stored value of each live key, None for each
   tombstoned key and None for every key that is not in the table. *)
C5_Get ==
    sstPhase = "opened" =>
        /\ reader.ok
        /\ \A k \in ProbeKeys :
               SSTableReader_get(reader, sstData, k) = Stored(added, k)

(* A table of more than two index blocks, its length no multiple of 16,
   with gaps between the keys and a key below the first, on which a live
   key, a tombstoned key and an absent key have been looked up. *)
C5_Witness ==
    /\ sstPhase = "opened"
    /\ reader.ok
    /\ Len(added) > 2 * INDEX_INTERVAL
    /\ Len(added) % INDEX_INTERVAL # 0
    /\ plan.start = 1
    /\ plan.stride = 2
    /\ \E k \in ProbeKeys : /\ Stored(added, k) # None
                            /\ SSTableReader_get(reader, sstData, k) # None
    /\ \E j \in 1..Len(added) : /\ added[j][2] = None
                                /\ SSTableReader_get(reader, sstData, added[j][1]) = None
    /\ \E k \in ProbeKeys : /\ \A j \in 1..Len(added) : added[j][1] # k
                            /\ BytesLess(added[1][1], k)
                            /\ BytesLess(k, added[Len(added)][1])
                            /\ SSTableReader_get(reader, sstData, k) = None

(* The ends of the ranges asked for: open, below every key, keys of the
   table and between them, above every key. *)
RangeEnds ==
    {None, B(<<>>), B(KeyAt(0)), B(KeyAt(1)), B(KeyAt(4)), B(KeyAt(17)),
     B(KeyAt(40)), B(<<255>>)}

(* start_key <= key < end_key, None leaving its side open. *)
InRange(key, start_key, end_key) ==
    /\ start_key = None \/ BytesLE(Raw(start_key), key)
    /\ end_key = None \/ BytesLess(key, Raw(end_key))

(* C31: get_range(start, end) yields exactly the entries of iter_all()
   whose key satisfies start <= key < end, in the same order, None leaving
   that side open, and yields nothing when start >= end. *)
C31_GetRange ==
    sstPhase = "opened" =>
        LET pairs == SSTableReader_iter_all(reader, sstData)
        IN  \A s, e \in RangeEnds :
                LET got == RangeFrom(pairs, s, e)
                IN  /\ got = SSTableReader_get_range(reader, sstData, s, e)
                    /\ got = SelectSeq(pairs, LAMBDA p : InRange(p[1], s, e))
                    /\ (s # None /\ e # None /\ BytesLE(Raw(e), Raw(s))) =>
                           got = <<>>

(* A table of more than one index block has been asked for a range that
   begins and ends at keys it holds and leaves entries out on both sides,
   for ranges open on one side, and for a range whose start is above its
   end. *)
C31_Witness ==
    /\ sstPhase = "opened"
    /\ reader.ok
    /\ Len(added) > INDEX_INTERVAL
    /\ plan.start = 0 /\ plan.stride = 1
    /\ LET got == SSTableReader_get_range(reader, sstData,
                                          B(KeyAt(1)), B(KeyAt(17)))
       IN  /\ Len(got) = 16
           /\ got[1][1] = KeyAt(1)
           /\ got[16][1] = KeyAt(16)
    /\ Len(SSTableReader_get_range(reader, sstData, None, B(KeyAt(4)))) = 4
    /\ Len(SSTableReader_get_range(reader, sstData, B(KeyAt(4)), None))
           = Len(added) - 4
    /\ SSTableReader_get_range(reader, sstData, B(KeyAt(17)), B(KeyAt(4)))
           = <<>>

(* The offset in the file at which the record of the j-th add begins,
   j = 0, 1, ...: the header, then 8 bytes, the key and the value of every
   record before it. *)
RECURSIVE RecordOffset(_)
RecordOffset(j) ==
    IF j = 0 THEN HEADER_SIZE
    ELSE RecordOffset(j - 1) + 8 + Len(added[j][1])
         + (IF added[j][2] = None THEN 0 ELSE Len(Raw(added[j][2])))

(* C34: after n successful adds and finalize() the index the reader loads
   has ceil(n / 16) entries; entry i, i = 0, 1, ..., holds the key of data
   record 16 * i and the offset at which that record begins in the file;
   the index keys are strictly increasing and the first offset is 24. *)
C34_SparseIndex ==
    sstPhase = "opened" =>
        /\ reader.ok
        /\ Len(reader.index) = (Len(added) + INDEX_INTERVAL - 1) \div INDEX_INTERVAL
        /\ \A i \in 0..(Len(reader.index) - 1) :
               LET entry == reader.index[i + 1]
               IN  /\ entry[1] = added[INDEX_INTERVAL * i + 1][1]
                   /\ entry[2] = Pack(RecordOffset(INDEX_INTERVAL * i), 8)
                   /\ IterFrom(sstData, Unpack(entry[2]), 1)
                          = <<added[INDEX_INTERVAL * i + 1]>>
                   /\ i > 0 => BytesLess(reader.index[i][1], entry[1])
        /\ Len(added) > 0 => reader.index[1][2] = Pack(24, 8)

(* A table of 33 records, with tombstones and values of several lengths,
   was opened: its index has three entries. *)
C34_Witness ==
    /\ sstPhase = "opened"
    /\ reader.ok
    /\ Len(added) = 2 * INDEX_INTERVAL + 1
    /\ Len(reader.index) = 3
    /\ \E j \in 1..INDEX_INTERVAL : added[j][2] = None

(* The offset of the last index entry whose key is <= key, the start of
   the data when there is none. *)
ScanStart(r, key) ==
    LET below == {i \in 1..Len(r.index) : BytesLE(r.index[i][1], key)}
    IN  IF below = {} THEN Pack(HEADER_SIZE, 8)
        ELSE r.index[CHOOSE i \in below : \A j \in below : j <= i][2]

(* C35: get starts its scan at the offset of the largest index entry whose
   key is <= the target, at offset 24 when there is none; it reads at most
   16 data records, each at the offset where a record of the table begins,
   and none at or past index_offset. *)
C35_BoundedScan ==
    sstPhase = "opened" =>
        /\ reader.ok
        /\ \A k \in ProbeKeys :
               LET start == find_scan_start(reader, k)
                   reads == ScanReads(reader, sstData, k,
                                      SeekTo(sstData, start), SCAN_LIMIT)
               IN  /\ start = ScanStart(reader, k)
                   /\ Len(reads) <= 16
                   /\ \A n \in 1..Len(reads) :
                          /\ reads[n] < Unpack(reader.index_offset)
                          /\ \E j \in 0..(Len(added) - 1) :
                                 reads[n] = RecordOffset(j)
                   /\ Len(reads) > 0 => reads[1] = Unpack(start)

(* On a table of 33 records a key above every key of the table was looked
   up: the scan read the one record of the last block and stopped at the
   index; a key of the first block was found after 16 reads. *)
C35_Witness ==
    /\ sstPhase = "opened"
    /\ reader.ok
    /\ Len(added) = 2 * INDEX_INTERVAL + 1
    /\ Len(ScanReads(reader, sstData, <<255>>,
                     SeekTo(sstData, find_scan_start(reader, <<255>>)),
                     SCAN_LIMIT)) = 1
    /\ Len(ScanReads(reader, sstData, added[INDEX_INTERVAL][1],
                     SeekTo(sstData,
                            find_scan_start(reader, added[INDEX_INTERVAL][1])),
                     SCAN_LIMIT)) = 16

(* C36: on a file that the reader opens successfully, reader.num_entries
   is the number of successful adds made before finalize(), 0 for an empty
   table, and iter_all() yields that many records; the count of a non-empty
   finalized table is never the 0 of the header placeholder. *)
C36_NumEntries ==
    (sstPhase = "opened" /\ reader.ok) =>
        /\ reader.num_entries = Pack(Len(added), 8)
        /\ reader.num_entries = Pack(writer.num_entries, 8)
        /\ Len(SSTableReader_iter_all(reader, sstData)) = Len(added)
        /\ Len(added) > 0 => reader.num_entries # Slice(PackHeader(0), 12, 20)

(* A table of 33 records was opened and iterated. *)
C36_Witness ==
    /\ sstPhase = "opened" /\ reader.ok
    /\ Len(added) = 2 * INDEX_INTERVAL + 1
    /\ Unpack(reader.num_entries) = 2 * INDEX_INTERVAL + 1
    /\ Len(SSTableReader_iter_all(reader, sstData)) = 2 * INDEX_INTERVAL + 1

(* C6: adding the pairs of a strictly increasing key sequence, finalizing
   and iterating yields the same <<key, value-or-None>> sequence in the
   same order. *)
C6_IterAll ==
    sstPhase = "opened" =>
        /\ reader.ok
        /\ SSTableReader_iter_all(reader, sstData) = added

(* A table longer than one index block, tombstones and empty values among
   its entries, has been iterated. *)
C6_Witness ==
    /\ sstPhase = "opened"
    /\ reader.ok
    /\ Len(added) > INDEX_INTERVAL
    /\ \E j \in 1..Len(added) : added[j][2] = None
    /\ \E j \in 1..Len(added) : added[j][2] = B(<<>>)
    /\ Len(SSTableReader_iter_all(reader, sstData)) = Len(added)


(***************************************************************************)
(* One SSTable path through its life: a writer made on it, add() called    *)
(* with keys in any order, finalize(), a reader opened, add() and          *)
(* finalize() called again on the finalized writer, and another writer     *)
(* made on the same path.                                                  *)
(***************************************************************************)
MaxAdds == 3

SealKeys == {<<97>>, <<97, 0>>, <<98>>}

(* The key of the last add() that succeeded, None when none did. *)
PreviousKey == IF added = <<>> THEN None ELSE B(added[Len(added)][1])

(* SSTableWriter(filepath), whatever the path holds: open(filepath, 'wb')
   empties the file. *)
SealCreate ==
    /\ ~writer.open
    /\ writer' = SSTableWriter_init
    /\ sstExists' = TRUE
    /\ sstData' = <<>>
    /\ added' = <<>>
    /\ lastAdd' = NoAdd
    /\ flipped' = NoFlip
    /\ sstPhase' = "writing"
    /\ UNCHANGED <<reader, plan, sealed, walVars, memVars, sysVars>>

(* writer.add(key, value), on the writer before or after its finalize(). *)
SealAdd(key, value) ==
    /\ sstPhase # "none"
    /\ lastAdd.calls < MaxAdds
    /\ LET res == SSTableWriter_add(writer, key, value)
       IN  /\ writer' = res.w
           /\ added' = IF res.ok THEN Append(added, <<key, value>>) ELSE added
           /\ lastAdd' = [calls |-> lastAdd.calls + 1, key |-> key,
                          prev |-> PreviousKey, open |-> writer.open,
                          ok |-> res.ok, error |-> res.error]
    /\ UNCHANGED <<sstData, sstExists, reader, plan, sstPhase, sealed, flipped,
                   walVars, memVars, sysVars>>

(* writer.finalize(); on a finalized writer self._file is None and
   self._file.tell() raises before anything is written. *)
SealFinalize ==
    /\ sstPhase # "none"
    /\ IF writer.open
       THEN LET file == SSTableWriter_finalize(writer)
            IN  /\ sstData' = file
                /\ sealed' = [done |-> TRUE, data |-> file]
                /\ writer' = [writer EXCEPT !.open = FALSE]
                /\ sstPhase' = "finalized"
       ELSE UNCHANGED <<sstData, sealed, writer, sstPhase>>
    /\ UNCHANGED <<sstExists, reader, added, plan, lastAdd, flipped,
                   walVars, memVars, sysVars>>

(* The writer's calls take a value, a tombstone, the empty value in turn. *)
SealNext ==
    \/ SealCreate
    \/ \E k \in SealKeys : SealAdd(k, ValueAt(lastAdd.calls, 0))
    \/ SealFinalize
    \/ SstOpen

InitSeal == WalInit /\ MemInit /\ SstInit /\ SysInit

SpecSeal == InitSeal /\ [][SealNext]_vars

(* C17: an SSTable is finalized once and read-only afterwards: once
   finalize() has completed for a path, no later writer or reader operation
   (a writer or a reader made on the path, add, finalize, get, iter_all)
   changes the file's bytes. *)
C17_ReadOnlyAfterFinalize ==
    (sealed.done /\ flipped = NoFlip) => sstData = sealed.data

(* C18: after any sequence of successful and rejected add() calls followed
   by finalize(), iter_all() yields strictly increasing keys, no key twice:
   the entries of the adds that succeeded. *)
C18_StrictlyIncreasing ==
    (sstPhase = "opened" /\ flipped = NoFlip) =>
        LET pairs == SSTableReader_iter_all(reader, sstData)
        IN  /\ reader.ok
            /\ pairs = added
            /\ \A j \in 2..Len(pairs) : BytesLess(pairs[j - 1][1], pairs[j][1])

(* A table of two entries whose writer rejected a third add has been
   finalized and iterated. *)
C18_Witness ==
    /\ sstPhase = "opened" /\ flipped = NoFlip /\ reader.ok
    /\ lastAdd.calls = MaxAdds /\ lastAdd.open /\ ~lastAdd.ok
    /\ Len(SSTableReader_iter_all(reader, sstData)) = 2

(* C19: on a writer that is not finalized, add(k, v) raises the ValueError
   naming 'sorted order' whenever k is less than or equal to the key of the
   previous successful add, k equal to it included, and succeeds whenever k
   is strictly greater or the first key. *)
C19_OrderError ==
    (lastAdd.calls > 0 /\ lastAdd.open) =>
        IF lastAdd.prev # None /\ BytesLE(lastAdd.key, Raw(lastAdd.prev))
        THEN /\ ~lastAdd.ok
             /\ lastAdd.error = "Keys must be added in sorted order"
        ELSE lastAdd.ok

(* The last add was given the key of the previous successful add, after an
   earlier add had been rejected, and was rejected. *)
C19_Witness ==
    /\ lastAdd.calls = MaxAdds /\ lastAdd.open /\ ~lastAdd.ok
    /\ lastAdd.prev = B(lastAdd.key)
    /\ Len(added) = 1

(***************************************************************************)
(* One bit flipped in a finalized SSTable before a reader is opened on it. *)
(***************************************************************************)
FlipKeys == {<<97>>}

FlipValues == {None, B(<<7>>)}

Bits == {1, 2, 4, 8, 16, 32, 64, 128}

(* One bit of one byte before the footer's checksum is flipped. *)
SealFlip ==
    /\ sstPhase = "finalized"
    /\ flipped = NoFlip
    /\ \E byte \in 1..(Len(sstData) - 8), bit \in Bits :
          /\ sstData' = WriteAt(sstData, byte - 1, <<Xor8(sstData[byte], bit)>>)
          /\ flipped' = [kind |-> "bit", byte |-> byte, bit |-> bit]
    /\ UNCHANGED <<writer, sstExists, reader, added, plan, sstPhase, sealed, lastAdd,
                   walVars, memVars, sysVars>>

(* What the first 12 bytes of the file are overwritten with: a magic
   number of zeros or with its first or last byte changed, a version of 0,
   2 or 257, or both a wrong magic number and a wrong version. *)
HeaderOverwrites ==
    {[kind |-> "magic", bytes |-> m \o Pack(1, 4)] :
        m \in {Pack(0, 8), WriteAt(MAGIC_NUMBER, 0, <<0>>), WriteAt(MAGIC_NUMBER, 7, <<0>>)}}
    \cup {[kind |-> "version", bytes |-> MAGIC_NUMBER \o Pack(v, 4)] : v \in {0, 2, 257}}
    \cup {[kind |-> "both", bytes |-> Pack(0, 8) \o Pack(2, 4)]}

(* The head of a finalized file is overwritten behind the reader's back. *)
SealOverwriteHeader ==
    /\ sstPhase = "finalized"
    /\ flipped = NoFlip
    /\ \E o \in HeaderOverwrites :
          /\ sstData' = WriteAt(sstData, 0, o.bytes)
          /\ flipped' = [kind |-> o.kind, byte |-> 0, bit |-> 0]
    /\ UNCHANGED <<writer, sstExists, reader, added, plan, sstPhase, sealed, lastAdd,
                   walVars, memVars, sysVars>>

FlipNext ==
    \/ SealCreate
    \/ \E k \in FlipKeys, v \in FlipValues : SealAdd(k, v)
    \/ SealFinalize
    \/ SealFlip
    \/ SealOverwriteHeader
    \/ SstOpen

InitFlip == WalInit /\ MemInit /\ SstInit /\ SysInit

SpecFlip == InitFlip /\ [][FlipNext]_vars

(* A reader has been opened on a finalized table with one bit flipped. *)
OpenedFlipped == sstPhase = "opened" /\ flipped.kind = "bit"

(* C20: flipping any single bit in bytes [0, file_size - 8) of a finalized
   SSTable makes the reader's open fail with the 'Checksum mismatch' error,
   whichever byte is changed. *)
C20_FlipIsChecksumError ==
    OpenedFlipped => ~reader.ok /\ reader.error = "Checksum mismatch"

(* C20 as the code has it: the open fails whichever bit is flipped; with
   the magic-number error for a bit of bytes 0..7, with the version error
   for a bit of bytes 8..11, which are checked before the checksum, and
   with 'Checksum mismatch' for a bit of any other byte before the
   checksum. *)
C20_FlipFailsOpen ==
    OpenedFlipped =>
        /\ ~reader.ok
        /\ reader.error = IF flipped.byte <= 8
                           THEN "Invalid SSTable: wrong magic number"
                           ELSE IF flipped.byte <= 12
                           THEN "Unsupported SSTable version"
                           ELSE "Checksum mismatch"

(* The top bit of the last byte of the footer's index_offset was flipped in
   a table of one entry, and the open failed on the checksum. *)
C20_Witness ==
    /\ OpenedFlipped
    /\ Len(added) = 1
    /\ flipped.byte = Len(sstData) - 8 /\ flipped.bit = 128
    /\ reader.error = "Checksum mismatch"

(* Whether the checksum stored in the footer is the one of the file's bytes. *)
ChecksumMatches(data) ==
    Slice(data, Len(data) - 8, Len(data)) = crc32(data_to_check(data)) \o Pack(0, 4)

(* C21: the reader's open fails with the format error when the header's
   magic number is wrong (the magic-number error, also when the version is
   wrong too) or its version is not 1 (the version error); the header is
   checked before the checksum, so the error is the format error although
   the file's checksum no longer matches either. *)
C21_HeaderBeforeChecksum ==
    (sstPhase = "opened" /\ flipped.kind \in {"magic", "version", "both"}) =>
        /\ ~reader.ok
        /\ reader.error = IF flipped.kind = "version"
                           THEN "Unsupported SSTable version"
                           ELSE "Invalid SSTable: wrong magic number"
        /\ ~ChecksumMatches(sstData)

(* A table of one entry whose magic number was overwritten with zeros has
   been opened, and the open reported the magic number. *)
C21_Witness ==
    /\ sstPhase = "opened" /\ flipped.kind = "magic"
    /\ Len(added) = 1
    /\ Slice(sstData, 0, 8) = Pack(0, 8)
    /\ reader.error = "Invalid SSTable: wrong magic number"


(***************************************************************************)
(* The WAL with one bit flipped in a record, in the bytes that precede the *)
(* record's checksum.                                                      *)
(***************************************************************************)
WalFlipKeys == {<<98, 99>>}

WalFlipValues == {None, B(<<7>>)}

(* One bit of one byte of record i before its checksum is flipped. *)
FlipPayloadBit ==
    /\ damage = NoDamage
    /\ \E i \in 1..Len(written), bit \in Bits :
          \E pos \in (RecordEnd(i - 1) + 1)..(RecordEnd(i) - 4) :
              /\ walData' = WriteAt(walData, pos - 1, <<Xor8(walData[pos], bit)>>)
              /\ damage' = [kind |-> "payload", at |-> i]
    /\ walStable' = walData'
    /\ UNCHANGED <<walExists, walOpen, clock, written, memVars, sstVars, sysVars,
                   syncOnWrite, lastCall>>

WalFlipNext ==
    \/ \E k \in WalFlipKeys, v \in WalFlipValues : Write(k, v)
    \/ FlipPayloadBit

InitWalFlip == WalInit /\ MemInit /\ SstInit /\ SysInit

SpecWalFlip == InitWalFlip /\ [][WalFlipNext]_vars

(* C22: a single bit flipped in the bytes of a WAL record that precede its
   CRC (timestamp, key_size, value_size, key, value) makes read_all() stop
   at that record: it yields the records before it and nothing else, and
   WALEntry.deserialize at the record's offset raises ValueError. *)
C22_PayloadFlipStopsReplay ==
    damage.kind = "payload" =>
        /\ Yielded = Written(damage.at - 1)
        /\ ~deserialize(walData, RecordEnd(damage.at - 1), clock).ok

(* The second of three records has a flipped bit; the first is still
   yielded and the third is not. *)
C22_Witness ==
    /\ damage.kind = "payload" /\ damage.at = 2
    /\ Len(written) = 3
    /\ Len(Yielded) = 1


(***************************************************************************)
(* The memtable flushed into an SSTable, as test_flush_memtable_to_sstable *)
(* does it: puts and deletes in any order on a few keys, puts and deletes  *)
(* of further keys in an order that is not the key order, then one flush.  *)
(***************************************************************************)
MaxFill == 18

FillUniverse == 20

MemKeys == {KeyAt(0), KeyAt(1), <<255>>}

MemValues == {B(<<>>), B(<<7>>)}

(* The key of the j-th fill, j = 0, 1, ...: the keys KeyAt(2) to
   KeyAt(FillUniverse + 1), eleven apart, each once. *)
FillKey(j) == KeyAt(2 + ((j * 11) % FillUniverse))

(* How many fills the memtable has taken: its keys outside MemKeys. *)
Filled(m) ==
    Cardinality({j \in 1..Len(m.data) : m.data[j][1] \notin MemKeys})

(* The last operation on key wrote value. *)
Noted(key, value) == (key :> value) @@ latest

(* What the last operation on key wrote, None when none did. *)
LatestOf(key) == IF key \in DOMAIN latest THEN latest[key] ELSE None

(* memtable.put(key, value) *)
MemPut(key, value) ==
    /\ sstPhase = "none"
    /\ memtable' = Memtable_put(memtable, key, value)
    /\ latest' = Noted(key, value)
    /\ UNCHANGED <<cursor, rejected, iterator, walVars, sstVars, sysVars>>

(* memtable.delete(key) *)
MemDelete(key) ==
    /\ sstPhase = "none"
    /\ memtable' = Memtable_delete(memtable, key)
    /\ latest' = Noted(key, TOMBSTONE)
    /\ UNCHANGED <<cursor, rejected, iterator, walVars, sstVars, sysVars>>

(* self._data.clear() under an iter_all() generator: a generator that has
   not run yet, or has finished, holds nothing of the SortedDict; one that is
   part way goes on walking the keys it was walking, which the SortedDict no
   longer holds. *)
Detached(c, m) ==
    IF c.active /\ ~c.done /\ c.pos > 0 /\ c.walks = "live"
    THEN [c EXCEPT !.walks = "detached",
                   !.keys = [j \in 1..Len(m.data) |-> m.data[j][1]]]
    ELSE c

(* memtable.clear() *)
MemClear ==
    /\ sstPhase = "none"
    /\ memtable' = Memtable_clear(memtable)
    /\ latest' = NoLatest
    /\ cursor' = Detached(cursor, memtable)
    /\ UNCHANGED <<rejected, iterator, walVars, sstVars, sysVars>>

(* The next fill: a put, or a delete where the pattern has a tombstone. *)
MemFill ==
    /\ sstPhase = "none"
    /\ Filled(memtable) < MaxFill
    /\ LET j == Filled(memtable)
           value == ValueAt(j, 0)
       IN  /\ memtable' = IF value = None
                           THEN Memtable_delete(memtable, FillKey(j))
                           ELSE Memtable_put(memtable, FillKey(j), value)
           /\ latest' = Noted(FillKey(j), IF value = None THEN TOMBSTONE ELSE value)
    /\ UNCHANGED <<cursor, rejected, iterator, walVars, sstVars, sysVars>>

(* TOMBSTONE becomes None on the way to the writer. *)
ToSSTableValue(value) == IF value = TOMBSTONE THEN None ELSE value

ToSSTablePairs(pairs) ==
    [j \in 1..Len(pairs) |-> <<pairs[j][1], ToSSTableValue(pairs[j][2])>>]

(* for key, value in memtable.iter_all(): writer.add(key, value), stopping
   at the first add that raises.  [ok, w, added] *)
RECURSIVE AddAll(_, _, _)
AddAll(w, pairs, done) ==
    IF pairs = <<>> THEN [ok |-> TRUE, w |-> w, added |-> done]
    ELSE LET key == pairs[1][1]
             value == ToSSTableValue(pairs[1][2])
             res == SSTableWriter_add(w, key, value)
         IN  IF ~res.ok THEN [ok |-> FALSE, w |-> res.w, added |-> done]
             ELSE AddAll(res.w, Tail(pairs), Append(done, <<key, value>>))

(* The flush: a new writer, every entry of the memtable added in iter_all
   order, finalize, and a reader opened on the file. *)
MemFlush ==
    /\ sstPhase = "none"
    /\ LET res == AddAll(SSTableWriter_init, Memtable_iter_all(memtable), <<>>)
           file == SSTableWriter_finalize(res.w)
       IN  /\ added' = res.added
           /\ sstExists' = TRUE
           /\ IF res.ok
              THEN /\ writer' = [res.w EXCEPT !.open = FALSE]
                   /\ sstData' = file
                   /\ reader' = SSTableReader_init(TRUE, file)
                   /\ sstPhase' = "opened"
              ELSE /\ writer' = res.w
                   /\ sstData' = <<>>
                   /\ reader' = reader
                   /\ sstPhase' = "failed"
    /\ UNCHANGED <<sealVars, plan, walVars, memVars, sysVars>>

MemNext ==
    \/ \E k \in MemKeys, v \in MemValues : MemPut(k, v)
    \/ \E k \in MemKeys : MemDelete(k)
    \/ MemFill
    \/ MemClear
    \/ MemFlush

InitMem == WalInit /\ MemInit /\ SstInit /\ SysInit

SpecMem == InitMem /\ [][MemNext]_vars

(* C27: num_entries() is the number of distinct keys put or deleted since
   the memtable was made or last cleared, tombstones included: an operation
   on a key not yet written (a delete as well as a put) adds one entry, an
   overwrite or a delete of a key already written leaves the count as it
   was, and clear() makes it 0. *)
C27_NumEntries ==
    /\ num_entries(memtable) = Cardinality(DOMAIN latest)
    /\ [][/\ num_entries(memtable') = Cardinality(DOMAIN latest')
          /\ \A k \in DOMAIN latest' :
                 /\ SortedDict_get(memtable'.data, k) # None
                 /\ k \notin DOMAIN latest =>
                        num_entries(memtable') = num_entries(memtable) + 1
          /\ (latest' # NoLatest /\ DOMAIN latest' = DOMAIN latest) =>
                 num_entries(memtable') = num_entries(memtable)
          /\ latest' = NoLatest => num_entries(memtable') = 0]_vars

(* Three keys were written and no other: one holds a tombstone that came
   from deleting it, the count is three. *)
C27_Witness ==
    /\ DOMAIN latest = MemKeys
    /\ num_entries(memtable) = 3
    /\ \E k \in MemKeys : SortedDict_get(memtable.data, k) = TOMBSTONE
    /\ \E k \in MemKeys : Memtable_get(memtable, k) # None

(* The sum of _get_entry_size over the entries held. *)
RECURSIVE EntrySizes(_)
EntrySizes(data) ==
    IF data = <<>> THEN 0
    ELSE get_entry_size(data[1][1], data[1][2]) + EntrySizes(Tail(data))

(* C28: size_bytes() is the sum of the per-entry sizes of the entries held
   (len(key) + len(value), or + 4 for a tombstone, + the overhead): it is
   never negative and is 0 exactly when the memtable is empty, and a put or
   a delete changes it by the size of the key's new entry less the size of
   the entry the key had (0 when it had none). *)
C28_SizeBytes ==
    /\ memtable.size_bytes = 0
    /\ [][/\ memtable'.size_bytes = EntrySizes(memtable'.data)
          /\ memtable'.size_bytes >= 0
          /\ memtable'.size_bytes = 0 <=> num_entries(memtable') = 0
          /\ \A j \in 1..Len(memtable'.data) :
                 LET key == memtable'.data[j][1]
                     value == memtable'.data[j][2]
                     old == SortedDict_get(memtable.data, key)
                 IN  /\ get_entry_size(key, value)
                            = Len(key) + BYTES_OVERHEAD + NODE_OVERHEAD
                              + (IF value = TOMBSTONE THEN 4
                                 ELSE Len(Raw(value)))
                     /\ old # value =>
                            memtable'.size_bytes - memtable.size_bytes
                                = get_entry_size(key, value)
                                  - get_entry_size(key, old)]_vars

(* The memtable holds a tombstone, an empty value and a one-byte value on
   its three keys, of four bytes together, and nothing else. *)
C28_Witness ==
    /\ num_entries(memtable) = 3
    /\ \E a, b, c \in MemKeys :
           /\ SortedDict_get(memtable.data, a) = TOMBSTONE
           /\ SortedDict_get(memtable.data, b) = B(<<>>)
           /\ SortedDict_get(memtable.data, c) = B(<<7>>)
    /\ memtable.size_bytes
           = 4 + 3 * (BYTES_OVERHEAD + NODE_OVERHEAD) + TOMBSTONE_SIZE + 0 + 1

(***************************************************************************)
(* Small memtables, as test_is_full_threshold makes one: max_size_bytes is *)
(* 1, the size of one entry of a one-byte key and a one-byte value, or a   *)
(* size that three entries reach or miss by their values.                  *)
(***************************************************************************)
FullSizes == {1, 1 + 1 + BYTES_OVERHEAD + NODE_OVERHEAD, 250}

FullNext ==
    \/ \E k \in MemKeys, v \in MemValues : MemPut(k, v)
    \/ \E k \in MemKeys : MemDelete(k)
    \/ MemClear

InitFull ==
    /\ WalInit
    /\ \E max \in FullSizes : memtable = Memtable_init(max)
    /\ MemIdle
    /\ SstInit
    /\ SysInit

SpecFull == InitFull /\ [][FullNext]_vars

(* C29: in every reachable memtable state is_full() is true exactly when
   size_bytes(), the sum of the sizes of the entries held, is at least
   max_size_bytes; a memtable with a positive max_size_bytes that holds
   nothing is not full. *)
C29_IsFull ==
    /\ is_full(memtable) <=> memtable.size_bytes >= memtable.max_size_bytes
    /\ is_full(memtable) <=>
           EntrySizes(memtable.data) >= memtable.max_size_bytes
    /\ (num_entries(memtable) = 0 /\ memtable.max_size_bytes > 0) =>
           ~is_full(memtable)

(* A memtable whose size is exactly max_size_bytes: it is full. *)
C29_Witness ==
    /\ num_entries(memtable) = 1
    /\ memtable.size_bytes = memtable.max_size_bytes
    /\ is_full(memtable)

(***************************************************************************)
(* The memtable called with arguments of any type, as test_type_validation *)
(* calls it: keys and values that are bytes, None, the TOMBSTONE object, a *)
(* str, a bytearray, an int.                                               *)
(***************************************************************************)
NotBytes ==
    {None, TOMBSTONE, <<"str", <<107>>>>, <<"bytearray", <<107>>>>, <<"int", <<7>>>>}

TypedKeys == {B(k) : k \in MemKeys} \cup NotBytes

TypedValues == MemValues \cup NotBytes

(* The call raised: it is the last call that did. *)
Rejects(op, res) ==
    rejected' = IF res.error = "" THEN rejected
                ELSE [op |-> op, error |-> res.error,
                      unchanged |-> res.m = memtable]

(* memtable.put(key, value) *)
TypedPut(key, value) ==
    /\ LET res == PutCall(memtable, key, value)
       IN  /\ memtable' = res.m
           /\ latest' = IF res.error = "" THEN Noted(Raw(key), value) ELSE latest
           /\ Rejects("put", res)
    /\ UNCHANGED <<cursor, iterator, walVars, sstVars, sysVars>>

(* memtable.get(key) *)
TypedGet(key) ==
    /\ LET res == GetCall(memtable, key)
       IN  /\ memtable' = res.m
           /\ Rejects("get", res)
    /\ UNCHANGED <<latest, cursor, iterator, walVars, sstVars, sysVars>>

(* memtable.delete(key) *)
TypedDelete(key) ==
    /\ LET res == DeleteCall(memtable, key)
       IN  /\ memtable' = res.m
           /\ latest' = IF res.error = "" THEN Noted(Raw(key), TOMBSTONE)
                         ELSE latest
           /\ Rejects("delete", res)
    /\ UNCHANGED <<cursor, iterator, walVars, sstVars, sysVars>>

TypedNext ==
    \/ \E k \in TypedKeys, v \in TypedValues : TypedPut(k, v)
    \/ \E k \in TypedKeys : TypedGet(k)
    \/ \E k \in TypedKeys : TypedDelete(k)
    \/ MemClear

InitTyped == WalInit /\ MemInit /\ SstInit /\ SysInit

SpecTyped == InitTyped /\ [][TypedNext]_vars

TypeErrors == {"TypeError: Key must be bytes", "TypeError: Value must be bytes"}

(* C32: put with a key or a value that is not bytes (None included), and
   get or delete with a key that is not bytes, raise TypeError and leave
   the entries and size_bytes() as they were; put, get and delete with
   bytes arguments raise nothing. *)
C32_TypeErrors ==
    /\ rejected.op # "none" =>
           rejected.error \in TypeErrors /\ rejected.unchanged
    /\ \A k \in TypedKeys :
           /\ GetCall(memtable, k).error
                  = (IF isinstance_bytes(k) THEN ""
                     ELSE "TypeError: Key must be bytes")
           /\ GetCall(memtable, k).m = memtable
           /\ DeleteCall(memtable, k).error = GetCall(memtable, k).error
           /\ ~isinstance_bytes(k) => DeleteCall(memtable, k).m = memtable
           /\ \A v \in TypedValues :
                  LET res == PutCall(memtable, k, v)
                  IN  /\ res.error = "" <=>
                             isinstance_bytes(k) /\ isinstance_bytes(v)
                      /\ res.error # "" =>
                             res.error \in TypeErrors /\ res.m = memtable

(* A put of a value that is not bytes was refused by a memtable of three
   entries, a tombstone among them. *)
C32_Witness ==
    /\ rejected.op = "put"
    /\ rejected.error = "TypeError: Value must be bytes"
    /\ num_entries(memtable) = 3
    /\ \E k \in MemKeys : SortedDict_get(memtable.data, k) = TOMBSTONE

(* The keys looked up in both: those of the memtable's universe and keys
   around them. *)
MemProbeKeys ==
    MemKeys \cup {KeyAt(i) : i \in 0..(FillUniverse + 2)} \cup {<<>>, <<98, 0, 0>>}

(* C8: feeding iter_all() of a memtable reached by puts and deletes to
   add() never raises the sorted-order error, and the finalized table
   iterates as the memtable does (TOMBSTONE read as None) and answers
   get(k) as the memtable does, for every key k. *)
C8_FlushEquivalence ==
    sstPhase \in {"opened", "failed"} =>
        /\ sstPhase = "opened"
        /\ reader.ok
        /\ SSTableReader_iter_all(reader, sstData)
               = ToSSTablePairs(Memtable_iter_all(memtable))
        /\ \A k \in MemProbeKeys :
               SSTableReader_get(reader, sstData, k) = Memtable_get(memtable, k)

(* A memtable of more than 16 entries, inserted out of key order, with an
   overwritten key, a tombstone and a live value, has been flushed. *)
C8_Witness ==
    /\ sstPhase = "opened"
    /\ num_entries(memtable) > INDEX_INTERVAL
    /\ Filled(memtable) > 3
    /\ SortedDict_get(memtable.data, KeyAt(1)) = TOMBSTONE
    /\ SortedDict_get(memtable.data, <<255>>) = B(<<7>>)
    /\ SSTableReader_get(reader, sstData, <<255>>) = B(<<7>>)
    /\ Len(SSTableReader_iter_all(reader, sstData)) = num_entries(memtable)

(* C13: after any sequence of put and delete, get(k) is the value of the
   latest put to k when the latest operation on k is a put, and None when it
   is a delete or k was never written; no key has two entries. *)
C13_LatestWins ==
    /\ \A k \in MemProbeKeys :
           Memtable_get(memtable, k)
               = IF LatestOf(k) = TOMBSTONE THEN None ELSE LatestOf(k)
    /\ \A i, j \in 1..num_entries(memtable) :
           memtable.data[i][1] = memtable.data[j][1] => i = j

(* Among many entries, one key's latest operation is a put of a non-empty
   value, another's a put of the empty value, a third's a delete, and a
   probed key was never written. *)
C13_Witness ==
    /\ Filled(memtable) > 3
    /\ LatestOf(<<255>>) = B(<<7>>) /\ Memtable_get(memtable, <<255>>) = B(<<7>>)
    /\ LatestOf(KeyAt(0)) = B(<<>>) /\ Memtable_get(memtable, KeyAt(0)) = B(<<>>)
    /\ LatestOf(KeyAt(1)) = TOMBSTONE /\ Memtable_get(memtable, KeyAt(1)) = None
    /\ LatestOf(<<>>) = None /\ Memtable_get(memtable, <<>>) = None

(* What the specification's get reports for key. *)
OutcomeKind(key) ==
    IF LatestOf(key) = None THEN "Absent"
    ELSE IF LatestOf(key) = TOMBSTONE THEN "Tombstone"
    ELSE "Found"

(* C14: get(key) reports three distinguishable outcomes, the value of a live
   key, Tombstone for a key whose latest operation is a delete, Absent for a
   key never written since creation or the last clear(): two keys of
   different outcomes never get the same result, so a caller can tell a
   deleted key from one never written. *)
C14_ThreeOutcomes ==
    \A k1, k2 \in MemProbeKeys :
        OutcomeKind(k1) # OutcomeKind(k2)
            => Memtable_get(memtable, k1) # Memtable_get(memtable, k2)

(* C15: iter_all() yields every held key exactly once, the keys whose latest
   operation is a delete included and with TOMBSTONE as their value, in
   strictly increasing byte order. *)
C15_IterAllSorted ==
    LET pairs == Memtable_iter_all(memtable)
    IN  /\ \A j \in 1..Len(pairs) :
               /\ pairs[j][2] = LatestOf(pairs[j][1])
               /\ pairs[j][2] # None
               /\ j > 1 => BytesLess(pairs[j - 1][1], pairs[j][1])
        /\ {pairs[j][1] : j \in 1..Len(pairs)} = DOMAIN latest

(* A memtable filled out of key order, holding a tombstone between live
   keys, a key that is a prefix of another and byte 255. *)
C15_Witness ==
    LET pairs == Memtable_iter_all(memtable)
    IN  /\ Len(pairs) > INDEX_INTERVAL
        /\ \E j \in 2..(Len(pairs) - 1) :
               /\ pairs[j][2] = TOMBSTONE
               /\ pairs[j - 1][2] # TOMBSTONE
               /\ pairs[j + 1][2] # TOMBSTONE
        /\ \E i, j \in 1..Len(pairs) :
               /\ Len(pairs[i][1]) < Len(pairs[j][1])
               /\ Slice(pairs[j][1], 0, Len(pairs[i][1])) = pairs[i][1]
        /\ pairs[Len(pairs)][1] = <<255>>


(***************************************************************************)
(* One iter_all() generator over a memtable that is written while the      *)
(* generator is part way.  iter_all() is a generator function over         *)
(* self._data.items(): nothing runs until the first next(), and each       *)
(* next() takes the key at the generator's position in the SortedDict's    *)
(* key list as it is then, and that key's value as it is then.             *)
(***************************************************************************)
IterKeys == MemKeys

IterValues == {B(<<7>>)}

(* it = memtable.iter_all() *)
IterCreate ==
    /\ ~cursor.active
    /\ cursor' = [NoCursor EXCEPT !.active = TRUE,
                                  !.held = Memtable_iter_all(memtable)]
    /\ UNCHANGED <<memtable, latest, rejected, iterator, walVars, sstVars,
                   sysVars>>

(* next(it): the entry yielded, StopIteration at the end of the keys, or the
   KeyError of a detached key that the SortedDict does not hold. *)
IterStep(c, m) ==
    LET keys == IF c.walks = "live"
                THEN [j \in 1..Len(m.data) |-> m.data[j][1]]
                ELSE c.keys
    IN  IF c.pos >= Len(keys) THEN [c EXCEPT !.done = TRUE]
        ELSE LET key == keys[c.pos + 1]
                 value == SortedDict_get(m.data, key)
             IN  IF value = None
                 THEN [c EXCEPT !.done = TRUE, !.raised = TRUE]
                 ELSE [c EXCEPT !.pos = c.pos + 1,
                                !.yielded = Append(c.yielded, <<key, value>>)]

IterAdvance ==
    /\ cursor.active /\ ~cursor.done
    /\ cursor' = IterStep(cursor, memtable)
    /\ UNCHANGED <<memtable, latest, rejected, iterator, walVars, sstVars,
                   sysVars>>

IterNext ==
    \/ \E k \in IterKeys, v \in IterValues : MemPut(k, v)
    \/ \E k \in IterKeys : MemDelete(k)
    \/ MemClear
    \/ IterCreate
    \/ IterAdvance

InitIter == WalInit /\ MemInit /\ SstInit /\ SysInit

SpecIter == InitIter /\ [][IterNext]_vars

(* C16: the iterator obtained from iter_all() is a snapshot: what it has
   yielded so far is the beginning of the entries held when it was created,
   and once it is exhausted it has yielded exactly those, without raising,
   even if put, delete or clear was called in between. *)
C16_IterSnapshot ==
    cursor.active =>
        /\ Len(cursor.yielded) <= Len(cursor.held)
        /\ \A j \in 1..Len(cursor.yielded) : cursor.yielded[j] = cursor.held[j]
        /\ cursor.done => cursor.yielded = cursor.held /\ ~cursor.raised

(* C30: clear() from any state leaves the memtable with no entry, the
   tombstones gone too, num_entries() = 0 and size_bytes() = 0, and
   max_size_bytes as it was: the memtable is what a new one with that
   max_size_bytes is, so that get finds no key and a put after the clear
   gives what it gives on a new memtable. *)
C30_ClearEmpties ==
    [][/\ memtable'.max_size_bytes = memtable.max_size_bytes
       /\ latest' = NoLatest =>
              /\ Memtable_iter_all(memtable') = <<>>
              /\ num_entries(memtable') = 0
              /\ memtable'.size_bytes = 0
              /\ ~is_full(memtable')
              /\ memtable' = Memtable_init(memtable.max_size_bytes)
              /\ \A k \in IterKeys :
                     /\ Memtable_get(memtable', k) = None
                     /\ \A v \in IterValues :
                            Memtable_put(memtable', k, v)
                                = Memtable_put(
                                      Memtable_init(memtable.max_size_bytes),
                                      k, v)]_vars

(* clear() was called on a memtable of three entries while an iteration
   that had yielded a tombstone was part way, and a put came after it. *)
C30_Witness ==
    /\ cursor.walks = "detached"
    /\ Len(cursor.keys) = 3
    /\ \E j \in 1..Len(cursor.yielded) : cursor.yielded[j][2] = TOMBSTONE
    /\ num_entries(memtable) = 1
    /\ \E k \in IterKeys, v \in IterValues :
           memtable = Memtable_put(Memtable_init(DEFAULT_MAX_SIZE), k, v)


(***************************************************************************)
(* The store: WAL, memtable and SSTables together.  A mutation is appended *)
(* to the WAL (sync_on_write=True) and then applied to the memtable; a     *)
(* full memtable is flushed in the four steps of the flush process; the    *)
(* process may crash between any two steps, in the middle of a WAL write   *)
(* and in the middle of finalize, and recovers by opening the same files.  *)
(***************************************************************************)
MaxOps == 3

MaxCrashes == 2

MaxTorn == 1

(* max_size_bytes of the store's memtable: two entries fill it. *)
SysMaxSize == 160

SysValues == {B(<<1>>), B(<<2>>)}

(* The record a crash cuts short is a delete. *)
TornValues == {None}

(* The order that truncates the WAL before the SSTable is finalized. *)
FlushOrder_truncateFirst == <<"add", "truncate", "finalize", "clear">>

(* The flush process, in the order of its steps. *)
FlushOrder == <<"add", "finalize", "clear", "truncate">>

NextFlushStep == FlushOrder[flushPos + 1]

AfterFlushStep == IF flushPos + 1 = Len(FlushOrder) THEN 0 ELSE flushPos + 1

Up == pc \in {"run", "recovered"}

(* One finalized SSTable: the file and the reader opened on it. *)
Table(data) == [data |-> data, reader |-> SSTableReader_init(TRUE, data)]

(* reader.get(key) on the tables from position n down to the oldest: the
   first result that is not None. *)
RECURSIVE TablesGet(_, _, _)
TablesGet(tbls, n, key) ==
    IF n = 0 THEN None
    ELSE LET value == SSTableReader_get(tbls[n].reader, tbls[n].data, key)
         IN  IF value # None THEN value ELSE TablesGet(tbls, n - 1, key)

(* A read: memtable.get(key), then the SSTables from newest to oldest. *)
LayeredGet(m, tbls, key) ==
    LET value == Memtable_get(m, key)
    IN  IF value # None THEN value ELSE TablesGet(tbls, Len(tbls), key)

(* The records of read_all() applied in order to memtable m: put for a
   value, delete for a tombstone. *)
RECURSIVE Replay(_, _)
Replay(entries, m) ==
    IF entries = <<>> THEN m
    ELSE Replay(Tail(entries),
                IF is_tombstone(entries[1])
                THEN Memtable_delete(m, entries[1].key)
                ELSE Memtable_put(m, entries[1].key, entries[1].value))

(* PUT: wal.write(key, value), then memtable.put(key, value). *)
Put(key, value) ==
    /\ Up /\ flushPos = 0 /\ walOpen
    /\ ~is_full(memtable)
    /\ Len(written) < MaxOps
    /\ walData' = WAL_write(walData, key, value, clock)
    /\ written' = Append(written, WALEntry(key, value, None, clock))
    /\ clock' = clock + 1
    /\ memtable' = Memtable_put(memtable, key, value)
    /\ pc' = "run"
    /\ snapshot' = NoSnapshot
    /\ walStable' = walData'
    /\ UNCHANGED <<latest, cursor, rejected, iterator, walExists, walOpen, damage, sstVars,
                   flushPos, tables, crashes, crashedAt, syncOnWrite, lastCall>>

(* DELETE: wal.write(key, None), then memtable.delete(key). *)
Delete(key) ==
    /\ Up /\ flushPos = 0 /\ walOpen
    /\ ~is_full(memtable)
    /\ Len(written) < MaxOps
    /\ walData' = WAL_write(walData, key, None, clock)
    /\ written' = Append(written, WALEntry(key, None, None, clock))
    /\ clock' = clock + 1
    /\ memtable' = Memtable_delete(memtable, key)
    /\ pc' = "run"
    /\ snapshot' = NoSnapshot
    /\ walStable' = walData'
    /\ UNCHANGED <<latest, cursor, rejected, iterator, walExists, walOpen, damage, sstVars,
                   flushPos, tables, crashes, crashedAt, syncOnWrite, lastCall>>

(* Flush step 1: a new writer takes every entry of the full memtable.  The
   file is created; what was written stays in the file object's buffer. *)
FlushAdd ==
    /\ Up /\ flushPos = 0
    /\ is_full(memtable)
    /\ NextFlushStep = "add"
    /\ LET res == AddAll(SSTableWriter_init, Memtable_iter_all(memtable), <<>>)
       IN  /\ res.ok
           /\ writer' = res.w
           /\ added' = res.added
    /\ sstExists' = TRUE
    /\ sstData' = <<>>
    /\ flushPos' = AfterFlushStep
    /\ pc' = "run"
    /\ snapshot' = NoSnapshot
    /\ UNCHANGED <<sealVars, walVars, memVars, reader, plan, sstPhase,
                   tables, crashes, crashedAt>>

(* Flush step 2: writer.finalize(); the file joins the store's tables. *)
FlushFinalize ==
    /\ Up /\ flushPos > 0
    /\ NextFlushStep = "finalize"
    /\ tables' = Append(tables, Table(SSTableWriter_finalize(writer)))
    /\ writer' = [writer EXCEPT !.open = FALSE]
    /\ sstExists' = FALSE
    /\ sstData' = <<>>
    /\ flushPos' = AfterFlushStep
    /\ UNCHANGED <<sealVars, walVars, memVars, reader, added, plan, sstPhase,
                   pc, crashes, crashedAt, snapshot>>

(* Flush step 3: memtable.clear() *)
FlushClear ==
    /\ Up /\ flushPos > 0
    /\ NextFlushStep = "clear"
    /\ memtable' = Memtable_clear(memtable)
    /\ flushPos' = AfterFlushStep
    /\ UNCHANGED <<latest, cursor, rejected, iterator, walVars, sstVars, pc, tables, crashes, crashedAt, snapshot>>

(* Flush step 4: wal.truncate(): close, open(filepath, 'wb'), reopen. *)
FlushTruncate ==
    /\ Up /\ flushPos > 0
    /\ NextFlushStep = "truncate"
    /\ walData' = <<>>
    /\ walExists' = TRUE
    /\ walOpen' = TRUE
    /\ flushPos' = AfterFlushStep
    /\ walStable' = walData'
    /\ UNCHANGED <<clock, written, damage, memVars, sstVars,
                   pc, tables, crashes, crashedAt, snapshot, syncOnWrite, lastCall>>

(* What a crash does to the process: the memtable, the writer and the open
   files are gone; the files stay as they are on disk. *)
Crashed ==
    /\ crashes < MaxCrashes
    /\ pc' = "crashed"
    /\ crashes' = crashes + 1
    /\ crashedAt' = flushPos
    /\ snapshot' = [k \in SysKeys |-> LayeredGet(memtable, tables, k)]
    /\ flushPos' = 0
    /\ memtable' = Memtable_init(SysMaxSize)
    /\ writer' = [SSTableWriter_init EXCEPT !.open = FALSE]
    /\ added' = <<>>
    /\ walOpen' = FALSE
    /\ UNCHANGED <<sealVars, latest, cursor, rejected, iterator, walExists, written, damage, reader, plan, sstPhase, tables,
                   syncOnWrite, lastCall>>

(* A crash between two operations or between two steps of a flush. *)
Crash ==
    /\ Up
    /\ Crashed
    /\ UNCHANGED <<walData, clock, sstData, sstExists, walStable>>

(* A crash in the middle of wal.write: the record reaches the file without
   its last n bytes, and the write does not return. *)
CrashInWrite(key, value, n) ==
    /\ Up /\ flushPos = 0 /\ walOpen
    /\ ~is_full(memtable)
    /\ LET rec == serialize(WALEntry(key, value, None, clock))
       IN  walData' = walData \o Slice(rec, 0, Len(rec) - n)
    /\ clock' = clock + 1
    /\ Crashed
    /\ walStable' = walData'
    /\ UNCHANGED <<sstData, sstExists>>

(* A crash in the middle of finalize, after its first fsync: the file has
   index, footer and header, the checksum field still zero. *)
CrashInFinalize ==
    /\ Up /\ flushPos > 0
    /\ NextFlushStep = "finalize"
    /\ sstData' = FinalizeSynced(writer)
    /\ Crashed
    /\ UNCHANGED <<walData, clock, sstExists, walStable>>

(* The tables of tbls whose file a reader opens. *)
Reopened(tbls) ==
    SelectSeq([j \in 1..Len(tbls) |-> Table(tbls[j].data)],
              LAMBDA t : t.reader.ok)

(* Recovery: the WAL is opened again on the same file, read_all() is
   replayed into a new memtable, and the SSTable files are opened; a file
   that no reader opens is removed. *)
Recover ==
    /\ pc = "crashed"
    /\ walOpen' = TRUE
    /\ walExists' = TRUE
    /\ memtable' = Replay(read_all(walExists, walData, clock),
                          Memtable_init(SysMaxSize))
    /\ tables' = Reopened(IF sstExists THEN Append(tables, Table(sstData))
                          ELSE tables)
    /\ sstExists' = FALSE
    /\ sstData' = <<>>
    /\ pc' = "recovered"
    /\ UNCHANGED <<sealVars, latest, cursor, rejected, iterator, walData, clock, written, damage,
                   writer, reader, added, plan, sstPhase,
                   flushPos, crashes, crashedAt, snapshot, syncVars>>

Next ==
    \/ \E k \in SysKeys, v \in SysValues : Put(k, v)
    \/ \E k \in SysKeys : Delete(k)
    \/ FlushAdd
    \/ FlushFinalize
    \/ FlushClear
    \/ FlushTruncate
    \/ Crash
    \/ \E k \in SysKeys, v \in TornValues, n \in 1..MaxTorn :
           CrashInWrite(k, v, n)
    \/ CrashInFinalize
    \/ Recover

Init ==
    /\ WalInit
    /\ memtable = Memtable_init(SysMaxSize) /\ MemIdle
    /\ SstInit
    /\ SysInit

Spec == Init /\ [][Next]_vars


(* The records read_all() yields from the WAL file as it is. *)
Replayable == read_all(walExists, walData, clock)

(* Acknowledged write i is yielded by read_all(). *)
InWal(i) == \E j \in 1..Len(Replayable) : Replayable[j] = written[i]

(* What table t holds for key: TOMBSTONE, the value, or None when the key
   is not in the table. *)
TableEntry(t, key) ==
    LET pairs == SSTableReader_iter_all(t.reader, t.data)
    IN  IF \E j \in 1..Len(pairs) : pairs[j][1] = key
        THEN LET value == Stored(pairs, key)
             IN  IF value = None THEN TOMBSTONE ELSE value
        ELSE None

(* Acknowledged write i is in a finalized SSTable: a table holds its key
   with its value, or with the value of a later write to the key. *)
InTable(i) ==
    \E n \in 1..Len(tables) :
        /\ tables[n].reader.ok
        /\ \E j \in i..Len(written) :
               /\ written[j].key = written[i].key
               /\ TableEntry(tables[n], written[i].key)
                      = (IF written[j].value = None THEN TOMBSTONE
                         ELSE written[j].value)

(* C1: after a crash, every write whose append had returned is yielded by
   read_all() or is in a finalized SSTable: no acknowledged write is lost. *)
C1_NoAckedWriteLost ==
    pc = "crashed" => \A i \in 1..Len(written) : InWal(i) \/ InTable(i)

(* What the first level that holds key holds for it, the memtable being the
   first level and the tables following from newest to oldest: TOMBSTONE,
   the value, or None when no level holds the key. *)
RECURSIVE FirstTableEntry(_, _, _)
FirstTableEntry(tbls, n, key) ==
    IF n = 0 THEN None
    ELSE IF TableEntry(tbls[n], key) # None THEN TableEntry(tbls[n], key)
    ELSE FirstTableEntry(tbls, n - 1, key)

FirstEntry(key) ==
    IF SortedDict_get(memtable.data, key) # None
    THEN SortedDict_get(memtable.data, key)
    ELSE FirstTableEntry(tables, Len(tables), key)

(* C7: a read that meets a tombstone for k at the first level holding k,
   in the memtable or in an SSTable, returns not-found, whatever the older
   SSTables hold for k. *)
C7_TombstoneShortCircuits ==
    pc # "crashed" =>
        \A k \in SysKeys :
            FirstEntry(k) = TOMBSTONE => LayeredGet(memtable, tables, k) = None

(* The newest table is finalized and holds the flushed entries, and with
   them every key of a record that read_all() yields. *)
FlushedIsFinalized ==
    /\ tables # <<>>
    /\ LET t == tables[Len(tables)]
       IN  /\ t.reader.ok
           /\ added # <<>>
           /\ SSTableReader_iter_all(t.reader, t.data) = added
           /\ \A j \in 1..Len(Replayable) :
                  TableEntry(t, Replayable[j].key) # None

(* C9: every step that empties the WAL is taken when the flushed entries
   are in a finalized SSTable, crashes at any step of a flush included. *)
C9_TruncateAfterFinalize ==
    [][(walData # <<>> /\ walData' = <<>>) => FlushedIsFinalized]_vars

(* The WAL has been emptied by a flush that followed a crash in the middle
   of an earlier flush, after recovery. *)
C9_Witness ==
    /\ walData = <<>>
    /\ written # <<>>
    /\ flushPos = 0
    /\ pc = "run"
    /\ crashes > 0
    /\ crashedAt > 0
    /\ tables # <<>>

(* The crash came after finalize had completed and before truncate had. *)
FinalizedNotTruncated(pos) ==
    /\ \E j \in 1..pos : FlushOrder[j] = "finalize"
    /\ \A j \in 1..pos : FlushOrder[j] # "truncate"

(* C10: after a crash between finalize and truncate, recovery gives every
   key the read result it had before the crash. *)
C10_RecoveryKeepsReads ==
    (pc = "recovered" /\ FinalizedNotTruncated(crashedAt)) =>
        \A k \in SysKeys : LayeredGet(memtable, tables, k) = snapshot[k]


(* C11: between operations, with no flush in progress, the records of
   read_all() applied in order to an empty memtable give the entries of
   the live memtable. *)
C11_WalMirrorsMemtable ==
    (Up /\ flushPos = 0) =>
        Memtable_iter_all(Replay(Replayable, Memtable_init(SysMaxSize)))
            = Memtable_iter_all(memtable)


(***************************************************************************)
(* WAL.write down to the file: the file object is opened unbuffered, so    *)
(* write() on it is one write of the operating system, which stores all    *)
(* the bytes, stores only the first of them, or fails; flush() and         *)
(* os.fsync() follow when sync_on_write is set.                            *)
(***************************************************************************)
MaxShort == 2

MaxCalls == 3

SyncKeys == {<<97>>}

SyncValues == {None, B(<<7>>)}

(* What self._file.write(serialized) can do. *)
RawWriteOutcomes ==
    {[kind |-> "all", short |-> 0], [kind |-> "error", short |-> 0]}
    \cup {[kind |-> "short", short |-> n] : n \in 1..MaxShort}

(* The file after self._file.write(serialized) with the given outcome. *)
RawWrite(data, serialized, outcome) ==
    IF outcome.kind = "error" THEN data
    ELSE data \o Slice(serialized, 0, Len(serialized) - outcome.short)

(* write() returns unless the file write raised: the count that the file
   write returns is not looked at. *)
WriteReturns(outcome) == outcome.kind # "error"

(* WAL.write(key, value), the file write going as outcome says. *)
WriteThrough(key, value, outcome) ==
    /\ walOpen
    /\ clock <= MaxCalls
    /\ LET entry == WALEntry(key, value, None, clock)
           file == RawWrite(walData, serialize(entry), outcome)
       IN  /\ walData' = file
           /\ written' = IF WriteReturns(outcome) THEN Append(written, entry)
                         ELSE written
           /\ lastCall' = [outcome |-> outcome.kind,
                           returned |-> WriteReturns(outcome),
                           before |-> lastCall.outcome]
           \* flush(), os.fsync(): everything in the file is stable; without
           \* them the operating system writes back when it chooses
           /\ IF syncOnWrite /\ WriteReturns(outcome)
              THEN walStable' = file
              ELSE walStable' \in {walStable, file}
    /\ clock' = clock + 1
    /\ UNCHANGED <<walExists, walOpen, damage, syncOnWrite,
                   memVars, sstVars, sysVars>>

SyncNext ==
    \E k \in SyncKeys, v \in SyncValues, o \in RawWriteOutcomes :
        WriteThrough(k, v, o)

InitSync ==
    /\ \E sync \in BOOLEAN : WalInitSync(sync)
    /\ MemInit /\ SstInit /\ SysInit

SpecSync == InitSync /\ [][SyncNext]_vars

(* The records read_all() yields from what is on stable storage. *)
StableYield ==
    LET entries == read_all(walExists, walStable, clock)
    IN  [i \in 1..Len(entries) |->
            <<entries[i].key, entries[i].value, is_tombstone(entries[i])>>]

(* C12: with sync_on_write set, every write that has returned has its
   record on stable storage, and a write whose file write failed has not
   returned normally. *)
C12_StableBeforeReturn ==
    syncOnWrite =>
        /\ StableYield = Written(Len(written))
        /\ lastCall.outcome = "error" => ~lastCall.returned


(***************************************************************************)
(* The life of one WAL object: write, truncate, close and delete in any    *)
(* order, and a torn tail left in the file by a crash.  A WAL is [data,    *)
(* exists, open]: the file's bytes, whether the file exists and whether    *)
(* the object holds an open file.                                          *)
(***************************************************************************)
(* The truncate that reopens the file for appending without emptying it. *)
WAL_truncate_append(w) ==
    [data |-> w.data, exists |-> TRUE, open |-> TRUE]

(* The truncate that does not reopen the file. *)
WAL_truncate_noreopen(w) ==
    [data |-> <<>>, exists |-> TRUE, open |-> FALSE]

(* truncate(): close(), open(filepath, 'wb') and close it, _open_file(). *)
WAL_truncate(w) ==
    [data |-> <<>>, exists |-> TRUE, open |-> TRUE]

(* close(): the file, if one is open, is closed. *)
WAL_close(w) ==
    [w EXCEPT !.open = FALSE]

(* delete(): close(), and os.remove when the file exists. *)
WAL_delete(w) ==
    [data |-> <<>>, exists |-> FALSE, open |-> FALSE]

ThisWAL == [data |-> walData, exists |-> walExists, open |-> walOpen]

(* The WAL after a call, and the call noted as the last one. *)
Becomes(w, call, returned) ==
    /\ walData' = w.data
    /\ walExists' = w.exists
    /\ walOpen' = w.open
    /\ walStable' = w.data
    /\ lastCall' = [outcome |-> call, returned |-> returned,
                    before |-> lastCall.outcome]

(* wal.write(key, value); on a closed WAL self._file is None and
   self._file.write raises AttributeError. *)
LifeWrite(key, value) ==
    /\ clock <= MaxCalls
    /\ IF walOpen
       THEN /\ Becomes([ThisWAL EXCEPT !.data = WAL_write(walData, key, value, clock)],
                       "write", TRUE)
            /\ written' = Append(written, WALEntry(key, value, None, clock))
       ELSE /\ Becomes(ThisWAL, "write", FALSE)
            /\ written' = written
    /\ clock' = clock + 1
    /\ UNCHANGED <<damage, syncOnWrite, memVars, sstVars, sysVars>>

LifeTruncate ==
    /\ Becomes(WAL_truncate(ThisWAL), "truncate", TRUE)
    /\ written' = <<>>
    /\ damage' = NoDamage
    /\ UNCHANGED <<clock, syncOnWrite, memVars, sstVars, sysVars>>

LifeClose ==
    /\ Becomes(WAL_close(ThisWAL), "close", TRUE)
    /\ UNCHANGED <<written, damage, clock, syncOnWrite, memVars, sstVars, sysVars>>

LifeDelete ==
    /\ Becomes(WAL_delete(ThisWAL), "delete", TRUE)
    /\ written' = <<>>
    /\ damage' = NoDamage
    /\ UNCHANGED <<clock, syncOnWrite, memVars, sstVars, sysVars>>

(* A crash left ten bytes that are no record at the end of the file. *)
LifeTornTail ==
    /\ walExists
    /\ damage = NoDamage
    /\ \E tail \in JunkTails :
          Becomes([ThisWAL EXCEPT !.data = walData \o tail], "torn", FALSE)
    /\ damage' = [kind |-> "tail", at |-> Len(written) + 1]
    /\ UNCHANGED <<written, clock, syncOnWrite, memVars, sstVars, sysVars>>

LifeNext ==
    \/ \E k \in SyncKeys, v \in SyncValues : LifeWrite(k, v)
    \/ LifeTruncate
    \/ LifeClose
    \/ LifeDelete
    \/ LifeTornTail

InitLife == WalInit /\ MemInit /\ SstInit /\ SysInit

SpecLife == InitLife /\ [][LifeNext]_vars

(* C23: after truncate(), read_all() yields no records whatever was
   appended before, torn tail included, and the WAL is open for writing:
   the records appended after the truncate are the only ones a later
   read_all() yields, in append order. *)
C23_TruncateEmpties ==
    /\ lastCall.outcome = "truncate" =>
           /\ read_all(walExists, walData, clock) = <<>>
           /\ walExists /\ walOpen
    /\ damage = NoDamage => Yielded = Written(Len(written))

(* Two records were appended after a truncate that removed an earlier
   record, and read_all() yields the two. *)
C23_Witness ==
    /\ clock = MaxCalls + 1
    /\ Len(written) = 2
    /\ Len(Yielded) = 2
    /\ lastCall.outcome = "write" /\ lastCall.returned

(* C24: truncate() is idempotent: a truncate right after a truncate leaves
   the file's contents, its existence and the open state as they were, and
   a truncate of an empty WAL leaves it empty and open. *)
C24_TruncateIdempotent ==
    [][lastCall'.outcome = "truncate" =>
          /\ lastCall.outcome = "truncate" =>
                 walData' = walData /\ walExists' = walExists /\ walOpen' = walOpen
          /\ (walExists /\ walData = <<>>) =>
                 walData' = <<>> /\ walExists' /\ walOpen']_vars

(* A WAL that had records was truncated twice in a row. *)
C24_Witness ==
    /\ lastCall.outcome = "truncate" /\ lastCall.before = "truncate"
    /\ clock > 1
    /\ walData = <<>> /\ walOpen

(* C25: Removed is terminal: once delete() has removed the file, no later
   operation on the WAL object (write, truncate, close, delete) re-creates
   the file or opens the WAL again. *)
C25_RemovedIsTerminal ==
    [][(~walExists /\ ~walOpen) => (~walExists' /\ ~walOpen')]_vars

(***************************************************************************)
(* The empty value through every component: puts of b"" and of a one-byte  *)
(* value and deletes go to the WAL and the memtable, and a full memtable   *)
(* is flushed in the four steps of the flush process.  No crash.           *)
(***************************************************************************)
EmptyValues == {B(<<>>), B(<<7>>)}

EmptyNext ==
    \/ \E k \in SysKeys, v \in EmptyValues : Put(k, v)
    \/ \E k \in SysKeys : Delete(k)
    \/ FlushAdd
    \/ FlushFinalize
    \/ FlushClear
    \/ FlushTruncate

SpecEmpty == Init /\ [][EmptyNext]_vars

(* The last write to key put the empty value. *)
EmptyLast(key) ==
    \E i \in 1..Len(written) :
        /\ written[i].key = key
        /\ written[i].value = B(<<>>)
        /\ \A j \in (i + 1)..Len(written) : written[j].key # key

(* The newest table that holds key, 0 when none does. *)
NewestHolding(key) ==
    IF \E n \in 1..Len(tables) : TableEntry(tables[n], key) # None
    THEN CHOOSE n \in 1..Len(tables) :
             /\ TableEntry(tables[n], key) # None
             /\ \A later \in (n + 1)..Len(tables) :
                    TableEntry(tables[later], key) = None
    ELSE 0

(* C26: an empty value is never reported as a tombstone or as absent: the
   WAL replays each record it holds with the value written, b"" as b""
   with is_tombstone false; while the memtable holds a key whose last write
   put b"", Memtable.get gives b""; and once it was flushed, the newest
   SSTable holding the key gives b"" from get and from iter_all. *)
C26_EmptyIsAValue ==
    /\ \A j \in 1..Len(Replayable) :
           LET i == Len(written) - Len(Replayable) + j
           IN  /\ i >= 1
               /\ Replayable[j] = written[i]
               /\ written[i].value = B(<<>>) =>
                      /\ Replayable[j].value = B(<<>>)
                      /\ ~is_tombstone(Replayable[j])
    /\ \A k \in SysKeys :
           EmptyLast(k) =>
               IF SortedDict_get(memtable.data, k) # None
               THEN /\ Memtable_get(memtable, k) = B(<<>>)
                    /\ Memtable_get(memtable, k) # None
               ELSE LET n == NewestHolding(k)
                    IN  /\ n > 0
                        /\ tables[n].reader.ok
                        /\ SSTableReader_get(tables[n].reader, tables[n].data, k)
                               = B(<<>>)
                        /\ \E j \in 1..Len(SSTableReader_iter_all(
                                            tables[n].reader, tables[n].data)) :
                               SSTableReader_iter_all(tables[n].reader,
                                                      tables[n].data)[j]
                                   = <<k, B(<<>>)>>

(* One key's empty value was flushed and is read from the SSTable, the
   memtable cleared and the WAL truncated; after that the empty value was
   put for another key, which the WAL replays and the memtable gives. *)
C26_Witness ==
    \E k, flushed \in SysKeys :
        /\ EmptyLast(k) /\ EmptyLast(flushed)
        /\ \E j \in 1..Len(Replayable) :
               Replayable[j].key = k /\ Replayable[j].value = B(<<>>)
        /\ Memtable_get(memtable, k) = B(<<>>)
        /\ SortedDict_get(memtable.data, flushed) = None
        /\ NewestHolding(flushed) > 0
        /\ SSTableReader_get(tables[NewestHolding(flushed)].reader,
                             tables[NewestHolding(flushed)].data, flushed)
               = B(<<>>)

(***************************************************************************)
(* The WAL written under a microsecond clock that does not go back: the    *)
(* next write reads time.time() in the same microsecond as the one before  *)
(* it, or in a later one.                                                  *)
(***************************************************************************)
MaxStamped == 3

Ticks == {0, 1}

(* wal.write(key, value); tick microseconds pass before the next call. *)
StampedWrite(key, value, tick) ==
    /\ walOpen
    /\ Len(written) < MaxStamped
    /\ walData' = WAL_write(walData, key, value, clock)
    /\ written' = Append(written, WALEntry(key, value, None, clock))
    /\ clock' = clock + tick
    /\ walStable' = walData'
    /\ UNCHANGED <<walExists, walOpen, damage, syncOnWrite, lastCall,
                   memVars, sstVars, sysVars>>

ClockNext ==
    \E k \in WalKeys, v \in WalValues, tick \in Ticks : StampedWrite(k, v, tick)

InitClock == WalInit /\ MemInit /\ SstInit /\ SysInit

SpecClock == InitClock /\ [][ClockNext]_vars

(* C33: the timestamps of the records in read_all() order are strictly
   increasing, so no two records of one file share a timestamp. *)
C33_TimestampsIncrease ==
    \A i, j \in 1..Len(Replayable) :
        i < j => Unpack(Replayable[i].timestamp) < Unpack(Replayable[j].timestamp)

(***************************************************************************)
(* A writer that does not get to the end of finalize(): it is closed by    *)
(* __exit__ without finalize, or the process dies while it adds or while   *)
(* it finalizes; then a reader is made on the path.  The values added are  *)
(* a value, a tombstone, the empty value, or a value of 16 bytes that ends *)
(* with the CRC32 of every byte the file holds before those 8 bytes.       *)
(***************************************************************************)
AbandonKeys == {<<97>>, <<98>>}

(* 16 bytes that read as a footer when they are the file's last: the
   offset at which they begin, then the CRC32 of the file up to them and of
   that offset, as a u64. *)
ForgedValue(w, key) ==
    LET index_offset == Pack(Len(w.data) + 8 + Len(key), 8)
        before == w.data \o Pack(Len(key), 4) \o Pack(16, 4) \o key
    IN  B(index_offset \o crc32(before \o index_offset) \o Pack(0, 4))

(* SSTableWriter(filepath) on a path that holds no file. *)
AbandonCreate == sstPhase = "none" /\ SealCreate

(* __exit__ on a writer that was not finalized: self._file.close() writes
   the buffer out, the header still the placeholder. *)
WriterExit ==
    /\ sstPhase = "writing"
    /\ sstData' = writer.data
    /\ writer' = [writer EXCEPT !.open = FALSE]
    /\ sstPhase' = "abandoned"
    /\ UNCHANGED <<sstExists, reader, added, plan, sealVars,
                   walVars, memVars, sysVars>>

(* The process dies between two add() calls: the file holds the first n
   bytes of what the writer wrote. *)
CrashWriting(n) ==
    /\ sstPhase = "writing"
    /\ sstData' = Slice(writer.data, 0, n)
    /\ writer' = [writer EXCEPT !.open = FALSE]
    /\ sstPhase' = "crashed"
    /\ UNCHANGED <<sstExists, reader, added, plan, sealVars,
                   walVars, memVars, sysVars>>

(* The files a crash inside finalize() can leave before the real checksum
   is written: the data with some of the index and of the zero-checksum
   footer behind it and the placeholder header, or all of it with the real
   header. *)
FinalizeCrashFiles(w) ==
    LET full == FinalizeSynced_placeholder(w)
    IN  {Slice(full, 0, n) : n \in Len(w.data)..Len(full)}
        \cup {FinalizeSynced(w)}

(* The process dies inside finalize(). *)
CrashFinalizing ==
    /\ sstPhase = "writing"
    /\ sstData' \in FinalizeCrashFiles(writer)
    /\ writer' = [writer EXCEPT !.open = FALSE]
    /\ sstPhase' = "crashed in finalize"
    /\ UNCHANGED <<sstExists, reader, added, plan, sealVars,
                   walVars, memVars, sysVars>>

(* SSTableReader(filepath) on whatever the path holds. *)
AbandonOpen ==
    /\ sstPhase \in {"abandoned", "crashed", "crashed in finalize", "finalized"}
    /\ reader = NotOpened
    /\ reader' = SSTableReader_init(sstExists, sstData)
    /\ UNCHANGED <<writer, sstData, sstExists, added, plan, sstPhase, sealVars,
                   walVars, memVars, sysVars>>

AbandonNext ==
    \/ AbandonCreate
    \/ \E k \in AbandonKeys :
           \/ SealAdd(k, ValueAt(lastAdd.calls, 0))
           \/ writer.open /\ SealAdd(k, ForgedValue(writer, k))
    \/ SealFinalize
    \/ WriterExit
    \/ \E n \in 0..Len(writer.data) : CrashWriting(n)
    \/ CrashFinalizing
    \/ AbandonOpen

InitAbandon == WalInit /\ MemInit /\ SstInit /\ SysInit

SpecAbandon == InitAbandon /\ [][AbandonNext]_vars

(* A reader was made on a file whose writer did not complete finalize(). *)
OpenedUnfinished == reader # NotOpened /\ ~sealed.done

(* C37 as stated: if the writer is abandoned or the process crashes before
   finalize() has written the real checksum, the reader's open on that file
   fails: no reader opens a file whose header count, index or checksum is
   still a placeholder or missing. *)
C37_UnfinishedNeverOpens == OpenedUnfinished => ~reader.ok

(* The file ends with a record whose value has 16 bytes: it holds what the
   writer wrote up to the end of that record, and nothing behind it. *)
EndsInFooter ==
    \E j \in 1..Len(added) :
        /\ added[j][2] # None
        /\ Len(Raw(added[j][2])) = FOOTER_SIZE
        /\ sstData = Slice(writer.data, 0, RecordOffset(j))

(* C37, amended: on the file of a writer that did not complete finalize()
   the open fails unless the file's last 8 bytes are the CRC32 of the bytes
   before them: it fails after every crash inside finalize() and on every
   abandoned or cut file that does not end with such a value, and it
   succeeds, with num_entries 0, on the file that ends with a value of 16
   bytes carrying that CRC32. *)
C37_UnfinishedOpensOnlyForged ==
    OpenedUnfinished =>
        /\ reader.ok <=>
               (Len(sstData) >= HEADER_SIZE /\ ChecksumMatches(sstData))
        /\ reader.ok <=> EndsInFooter
        /\ reader.ok => reader.num_entries = Pack(0, 8)

(* The process died inside finalize() of a table of two records, the real
   header written and the checksum still 0, and the open failed on the
   checksum. *)
C37_Witness ==
    /\ OpenedUnfinished
    /\ sstPhase = "crashed in finalize"
    /\ Len(added) = 2
    /\ sstData = FinalizeSynced(writer)
    /\ reader.error = "Checksum mismatch"

(***************************************************************************)
(* add() calls that fail, among calls that succeed                         *)
(***************************************************************************)
(* add that sets _first_key before it looks at the value's type. *)
AddCall_valueLate(w, key, value) ==
    IF ~isinstance_bytes(key)
    THEN [w |-> w, error |-> "TypeError: Key must be bytes"]
    ELSE IF value # None /\ ~isinstance_bytes(value)
    THEN [w |-> IF w.first_key = None THEN [w EXCEPT !.first_key = key]
                ELSE w,
          error |-> "TypeError: Value must be bytes or None"]
    ELSE LET res == SSTableWriter_add(w, Raw(key), value)
         IN  [w |-> res.w, error |-> res.error]

(* add(key, value) with arguments of any type: the writer after the call
   and the exception raised, "" when none is. *)
AddCall(w, key, value) ==
    IF ~isinstance_bytes(key)
    THEN [w |-> w, error |-> "TypeError: Key must be bytes"]
    ELSE IF value # None /\ ~isinstance_bytes(value)
    THEN [w |-> w, error |-> "TypeError: Value must be bytes or None"]
    ELSE LET res == SSTableWriter_add(w, Raw(key), value)
         IN  [w |-> res.w, error |-> res.error]

AddKeys == {B(k) : k \in SealKeys} \cup NotBytes

AddValues == {B(<<1>>), B(<<>>)} \cup NotBytes

(* SSTableWriter(filepath) on a path that holds no file. *)
RejectCreate == sstPhase = "none" /\ SealCreate

(* writer.add(key, value) on the open writer; a call that raises is kept
   as the last one that did, with whether it left the writer as it was. *)
TypedAdd(key, value) ==
    /\ sstPhase = "writing"
    /\ lastAdd.calls < MaxAdds
    /\ LET res == AddCall(writer, key, value)
       IN  /\ writer' = res.w
           /\ added' = IF res.error = ""
                       THEN Append(added, <<Raw(key), value>>) ELSE added
           /\ lastAdd' = [calls |-> lastAdd.calls + 1, key |-> key[2],
                          prev |-> PreviousKey, open |-> writer.open,
                          ok |-> res.error = "", error |-> res.error]
           /\ rejected' = IF res.error = "" THEN rejected
                          ELSE [op |-> "add", error |-> res.error,
                                unchanged |-> res.w = writer]
    /\ UNCHANGED <<sstData, sstExists, reader, plan, sstPhase, sealed, flipped,
                   walVars, memtable, latest, cursor, iterator, sysVars>>

RejectNext ==
    \/ RejectCreate
    \/ \E key \in AddKeys, value \in AddValues : TypedAdd(key, value)
    \/ SealFinalize

InitReject == WalInit /\ MemInit /\ SstInit /\ SysInit

SpecReject == InitReject /\ [][RejectNext]_vars

(* The writer that only the successful adds were made on. *)
RECURSIVE OnlyAdded(_)
OnlyAdded(pairs) ==
    IF pairs = <<>> THEN SSTableWriter_init
    ELSE SSTableWriter_add(OnlyAdded(SubSeq(pairs, 1, Len(pairs) - 1)),
                           pairs[Len(pairs)][1], pairs[Len(pairs)][2]).w

(* C38: an add() that fails on the order of the keys or on the type of an
   argument leaves the writer as it was (no bytes written; entry count,
   index entries, first and last key as before), so the writer is at every
   moment the one that only the successful adds were made on, and
   finalize() writes the file that those adds alone give. *)
C38_FailedAddLeavesWriter ==
    /\ rejected.op = "add" => rejected.unchanged
    /\ sstPhase \in {"writing", "finalized"} =>
           [writer EXCEPT !.open = TRUE] = OnlyAdded(added)
    /\ sealed.done => sstData = SSTableWriter_finalize(OnlyAdded(added))

(* Of three calls the second failed on the order of the keys; the third
   succeeded and the table of two records was finalized. *)
C38_Witness ==
    /\ sealed.done
    /\ lastAdd.calls = 3
    /\ lastAdd.ok
    /\ Len(added) = 2
    /\ rejected.op = "add"
    /\ rejected.error = "Keys must be added in sorted order"

(***************************************************************************)
(* write() calls that raise: arguments of the wrong type, a closed WAL     *)
(***************************************************************************)
(* write that takes a value that is not bytes for the tombstone. *)
WriteCall_keyonly(w, key, value, now) ==
    IF ~isinstance_bytes(key)
    THEN [w |-> w, error |-> "TypeError: Key must be bytes"]
    ELSE IF ~w.open
    THEN [w |-> w, error |-> "AttributeError"]
    ELSE [w |-> [w EXCEPT !.data =
                     WAL_write(w.data, Raw(key),
                               IF isinstance_bytes(value) THEN value ELSE None,
                               now)],
          error |-> ""]

(* write(key, value) with arguments of any type on the WAL w at time now:
   the WAL after the call and the exception raised, "" when none is.
   WALEntry(key, value) checks the types; on a closed WAL self._file is
   None and self._file.write raises AttributeError. *)
WriteCall(w, key, value, now) ==
    IF ~isinstance_bytes(key)
    THEN [w |-> w, error |-> "TypeError: Key must be bytes"]
    ELSE IF value # None /\ ~isinstance_bytes(value)
    THEN [w |-> w, error |-> "TypeError: Value must be bytes or None"]
    ELSE IF ~w.open
    THEN [w |-> w, error |-> "AttributeError"]
    ELSE [w |-> [w EXCEPT !.data = WAL_write(w.data, Raw(key), value, now)],
          error |-> ""]

WriteKeys == {B(k) : k \in WalKeys} \cup NotBytes

WriteValues == WalValues \cup NotBytes

(* The arguments are a key that is bytes and a value that is bytes or
   None. *)
WellTyped(key, value) ==
    isinstance_bytes(key) /\ (value = None \/ isinstance_bytes(value))

(* wal.write(key, value).  `written` takes the entry when the arguments are
   well typed and the WAL is open; the call is kept as the last write, with
   what it raised, whether it was such a call, and whether the file and
   what read_all() yields from it are as before the call. *)
TypedWrite(key, value) ==
    /\ clock <= MaxCalls
    /\ LET res == WriteCall(ThisWAL, key, value, clock)
           fits == WellTyped(key, value) /\ walOpen
       IN  /\ Becomes(res.w, "write", res.error = "")
           /\ written' = IF fits
                         THEN Append(written,
                                     WALEntry(Raw(key), value, None, clock))
                         ELSE written
           /\ rejected' = [op |-> "write", error |-> res.error,
                           fits |-> fits,
                           unchanged |->
                               /\ res.w = ThisWAL
                               /\ read_all(res.w.exists, res.w.data, clock + 1)
                                  = read_all(walExists, walData, clock)]
    /\ clock' = clock + 1
    /\ UNCHANGED <<damage, syncOnWrite, memtable, latest, cursor, iterator,
                   sstVars, sysVars>>

RefuseNext ==
    \/ \E key \in WriteKeys, value \in WriteValues : TypedWrite(key, value)
    \/ LifeClose

InitRefuse == WalInit /\ MemInit /\ SstInit /\ SysInit

SpecRefuse == InitRefuse /\ [][RefuseNext]_vars

(* C39: write() raises TypeError when the key is not bytes or the value is
   neither bytes nor None, and raises on a closed WAL; a call that raised
   appended nothing and read_all() yields what it yielded before the call,
   so read_all() yields the entries of the well-typed writes made while the
   WAL was open, and no others. *)
C39_RefusedWriteAppendsNothing ==
    /\ rejected.op = "write" =>
           /\ rejected.error # "" <=> ~rejected.fits
           /\ rejected.error # "" => rejected.unchanged
           /\ lastCall.outcome = "write" =>
                  (lastCall.returned <=> rejected.fits)
    /\ read_all(walExists, walData, clock) = written

(* After one write that succeeded, a write was refused for its value's
   type: the file still yields the one record. *)
C39_Witness ==
    /\ rejected.op = "write"
    /\ rejected.error = "TypeError: Value must be bytes or None"
    /\ walOpen
    /\ Len(written) = 1
    /\ Len(read_all(walExists, walData, clock)) = 1

(***************************************************************************)
(* A MemtableIterator over a memtable that is not written while the        *)
(* iterator is in use.  `cursor` is its generator self._iter, `iterator`   *)
(* holds self._current, what the calls of next() returned, and the last    *)
(* call with its result.                                                   *)
(***************************************************************************)
MaxNexts == 5

(* The tuple (key, value) as a Python value. *)
Entry(pair) == <<"tuple", pair>>

(* _advance(): next(self._iter) into self._current, None on StopIteration;
   [gen, current], gen being the generator afterwards.  A KeyError of the
   generator is not caught and leaves self._current as it was. *)
MemtableIterator_advance(gen, current, m) ==
    LET g == IterStep(gen, m)
    IN  [gen |-> g,
         current |-> IF g.raised THEN current
                     ELSE IF g.done THEN None
                     ELSE Entry(g.yielded[Len(g.yielded)])]

(* MemtableIterator(memtable): iter_all(), then the first _advance(). *)
MemtableIterator_init(m) ==
    MemtableIterator_advance([NoCursor EXCEPT !.active = TRUE,
                                              !.held = Memtable_iter_all(m)],
                             None, m)

(* peek() *)
MemtableIterator_peek(it) == it.current

(* has_next() *)
MemtableIterator_has_next(it) == it.current # None

(* next() that advances first and returns the entry it then holds. *)
MemtableIterator_next_skip(it, gen, m) ==
    LET a == MemtableIterator_advance(gen, it.current, m)
    IN  IF it.current # None
        THEN [gen |-> a.gen, current |-> a.current, result |-> a.current]
        ELSE [gen |-> gen, current |-> it.current, result |-> it.current]

(* next(): [gen, current, result]. *)
MemtableIterator_next(it, gen, m) ==
    LET a == MemtableIterator_advance(gen, it.current, m)
    IN  IF it.current # None
        THEN [gen |-> a.gen, current |-> a.current, result |-> it.current]
        ELSE [gen |-> gen, current |-> it.current, result |-> it.current]

(* iterator = MemtableIterator(memtable) *)
IteratorCreate ==
    /\ ~iterator.made
    /\ LET a == MemtableIterator_init(memtable)
       IN  /\ cursor' = a.gen
           /\ iterator' = [made |-> TRUE, current |-> a.current,
                           returned |-> <<>>,
                           last |-> [op |-> "init", result |-> None]]
    /\ UNCHANGED <<memtable, latest, rejected, walVars, sstVars, sysVars>>

(* iterator.next() *)
IteratorNext ==
    /\ iterator.made
    /\ Len(iterator.returned) < MaxNexts
    /\ LET r == MemtableIterator_next(iterator, cursor, memtable)
       IN  /\ cursor' = r.gen
           /\ iterator' = [iterator EXCEPT
                               !.current = r.current,
                               !.returned = Append(@, r.result),
                               !.last = [op |-> "next", result |-> r.result]]
    /\ UNCHANGED <<memtable, latest, rejected, walVars, sstVars, sysVars>>

(* iterator.peek() *)
IteratorPeek ==
    /\ iterator.made
    /\ iterator' = [iterator EXCEPT
                        !.last = [op |-> "peek",
                                  result |-> MemtableIterator_peek(iterator)]]
    /\ UNCHANGED <<memtable, latest, cursor, rejected, walVars, sstVars,
                   sysVars>>

(* iterator.has_next() *)
IteratorHasNext ==
    /\ iterator.made
    /\ iterator' = [iterator EXCEPT
                        !.last = [op |-> "has_next",
                                  result |->
                                      MemtableIterator_has_next(iterator)]]
    /\ UNCHANGED <<memtable, latest, cursor, rejected, walVars, sstVars,
                   sysVars>>

(* The memtable is written, then the iterator is made and used. *)
IteratorSteps ==
    \/ \E k \in IterKeys, v \in MemValues : ~iterator.made /\ MemPut(k, v)
    \/ \E k \in IterKeys : ~iterator.made /\ MemDelete(k)
    \/ IteratorCreate
    \/ IteratorNext
    \/ IteratorPeek
    \/ IteratorHasNext

InitIterator == WalInit /\ MemInit /\ SstInit /\ SysInit

SpecIterator == InitIterator /\ [][IteratorSteps]_vars

(* What call j of next() is to return: entry j of iter_all(), None behind
   the last. *)
Expected(j) ==
    LET all == Memtable_iter_all(memtable)
    IN  IF j <= Len(all) THEN Entry(all[j]) ELSE None

(* C40: the calls of next() return the entries of iter_all() in order and
   None from then on; peek() returns what the following next() will return,
   at every point and without advancing; has_next() is true exactly when
   peek() is not None, that is while entries remain; on an empty memtable
   has_next() is false and peek() and every next() give None. *)
C40_IteratorProtocol ==
    iterator.made =>
        LET n == Len(iterator.returned)
            all == Memtable_iter_all(memtable)
        IN  /\ \A j \in 1..n : iterator.returned[j] = Expected(j)
            /\ MemtableIterator_peek(iterator) = Expected(n + 1)
            /\ MemtableIterator_peek(iterator)
               = MemtableIterator_next(iterator, cursor, memtable).result
            /\ iterator.last.op = "peek" =>
                   iterator.last.result = Expected(n + 1)
            /\ MemtableIterator_has_next(iterator)
               <=> MemtableIterator_peek(iterator) # None
            /\ iterator.last.op = "has_next" =>
                   (iterator.last.result <=> n < Len(all))
            /\ all = <<>> =>
                   /\ ~MemtableIterator_has_next(iterator)
                   /\ MemtableIterator_peek(iterator) = None
                   /\ \A j \in 1..n : iterator.returned[j] = None

(* Over a memtable of a value and a tombstone, four calls of next() gave
   the two entries and then None twice, and a peek() after them gave
   None. *)
C40_Witness ==
    /\ iterator.made
    /\ Len(Memtable_iter_all(memtable)) = 2
    /\ \E j \in 1..2 : Memtable_iter_all(memtable)[j][2] = TOMBSTONE
    /\ Len(iterator.returned) = 4
    /\ iterator.returned[1] # None
    /\ iterator.returned[2] # None
    /\ iterator.returned[3] = None
    /\ iterator.returned[4] = None
    /\ iterator.last = [op |-> "peek", result |-> None]

====
